---- MODULE Spec2Model ----
(***************************************************************************)
(* Model of the cart/order domain aggregates and of the dependency wiring  *)
(* (registry, auto-discovery, resolver, factories) of the modular backend. *)
(*                                                                         *)
(* Each component has its own specification; the variables of the other    *)
(* components stay at their initial values in it.                          *)
(*   SpecCart      app/core/domain/cart.py                                 *)
(*   SpecOrder     app/core/domain/order/order.py, a freshly created order *)
(*   SpecOrderAny  the same operations on an order built with any fields   *)
(*   SpecRegistry     app/infra/wiring/registry.py used by several threads *)
(*   SpecRegistrySeq  the registry used by one thread                      *)
(*   SpecResolver     dependency_resolver.py and factories.py              *)
(*   SpecService      the resolver where an implementation is absent       *)
(*   SpecCycle        the resolver where implementations form a cycle      *)
(*   SpecDiscovery    auto_discovery.py                                    *)
(*   SpecStore        the cart repository, service and handler             *)
(*   SpecSessions     the cart repository used by concurrent sessions      *)
(*   SpecAddItems     CartService.add_item called by concurrent requests   *)
(***************************************************************************)
EXTENDS Integers, Sequences, FiniteSets, TLC

None == "None"

(***************************************************************************)
(* Bounds and input sets                                                   *)
(***************************************************************************)
MaxCartCalls == 3
MaxOrderCalls == 4
NumThreads == 2
MaxRegistrations == 2
MaxResolverCalls == 3
MaxDepth == 4
MaxDiscoveryCalls == 2
MaxStoreCalls == 3
MaxSessionCalls == 3

Products == {"p1", "p2"}
Prices == {50, 100}
Quantities == {-1, 0, 1, 2}
ItemIds == {"i1", "i2"}
Address == "addr"

VARIABLES
    cart_items,     \* Cart.items: sequence of CartItem
    cart_outcome,   \* outcome of the last Cart.add_item call
    cart_call,      \* arguments of the last Cart.add_item call
    cart_history,   \* the add_item calls that returned normally, in order
    cart_ncalls,    \* number of add_item calls made
    order_items,    \* Order.items: sequence of OrderItem
    order_status,   \* Order.status
    order_address,  \* Order.shipping_address (None when absent)
    order_outcome,  \* outcome of the last Order operation
    order_call,     \* the last Order operation and its arguments
    order_ncalls,   \* number of Order operations called
    order_initial,  \* the status the order was constructed with
    order_confirms, \* number of confirm() calls that returned normally
    dep,            \* the deployment: the module files present, those that fail to import
    reg_map,        \* DependencyRegistry._repository_map (None: no entry)
    reg_services,   \* DependencyRegistry._services
    reg_initialized,\* DependencyRegistry._initialized
    reg_scans,      \* calls of discover_repositories / discover_services so far
    reg_manual,     \* the last register_repository(c, i) per contract c (None: none)
    reg_nreg,       \* number of register_repository calls made
    th_pc,          \* per thread: its position in the registry method it runs
    th_op,          \* per thread: the registry method it called, with its argument
    th_ret,         \* per thread: what its last completed call returned
    resolvers,      \* the DependencyResolver instances: session, _cache, who made it
    heap,           \* the objects constructed: class, constructor arguments, resolver
    res_bound,      \* every dependency edge bound so far: resolver, owner, type, object
    res_built,      \* every instance built for a contract: resolver, contract, object
    res_call,       \* the last resolver or factory call
    res_outcome,    \* "ok" or the exception it raised
    res_ret,        \* what it returned
    res_ncalls,     \* number of resolver and factory calls made
    disc_call,      \* the last call of a function of auto_discovery.py
    disc_outcome,   \* "ok" or the exception it raised
    disc_ret,       \* what it returned
    disc_ncalls,    \* number of such calls made
    db_rows,        \* the rows of table cart_items
    db_seq,         \* the last value of the sequence of cart_items.id
    st_call,        \* the last call of the cart repository, service or handler
    st_outcome,     \* "ok" or the exception it raised
    st_ret,         \* what it returned
    st_ncalls,      \* number of such calls made
    ss_pc,          \* per session: the statement its request is about to execute
    ss_op,          \* per session: the call its request made, with its arguments
    ss_cart,        \* per session: the Cart its request holds in memory
    ss_old,         \* per session: the user's rows when its save deleted them
    ss_new,         \* per session: the rows its save_all inserted
    ss_outcome,     \* per session: "ok" or the exception its last call raised
    ss_ret,         \* per session: what its last completed call returned
    ss_ncalls       \* per session: number of calls made

cartVars == <<cart_items, cart_outcome, cart_call, cart_history, cart_ncalls>>
orderVars == <<order_items, order_status, order_address, order_outcome,
               order_call, order_ncalls, order_initial, order_confirms>>
regVars == <<dep, reg_map, reg_services, reg_initialized, reg_scans, reg_manual,
             reg_nreg, th_pc, th_op, th_ret>>
resVars == <<resolvers, heap, res_bound, res_built, res_call, res_outcome, res_ret,
             res_ncalls>>
discVars == <<disc_call, disc_outcome, disc_ret, disc_ncalls>>
storeVars == <<db_rows, db_seq, st_call, st_outcome, st_ret, st_ncalls>>
sessVars == <<ss_pc, ss_op, ss_cart, ss_old, ss_new, ss_outcome, ss_ret, ss_ncalls>>
domainVars == <<cartVars, orderVars>>
vars == <<cartVars, orderVars, regVars, resVars, discVars, storeVars, sessVars>>

RECURSIVE SumSeq(_)
SumSeq(s) == IF s = <<>> THEN 0 ELSE Head(s) + SumSeq(Tail(s))

(***************************************************************************)
(* Cart (app/core/domain/cart.py)                                          *)
(***************************************************************************)
CartItem(product_id, quantity, unit_price) ==
    [product_id |-> product_id, quantity |-> quantity, unit_price |-> unit_price]

\* The loop of add_item over self.items: a matching entry is replaced by one
\* with the quantity increased, every other entry is copied.
RECURSIVE MergeLoop(_, _, _)
MergeLoop(its, product_id, quantity) ==
    IF its = <<>> THEN <<>>
    ELSE LET item == Head(its)
         IN  <<IF item.product_id = product_id
               THEN CartItem(item.product_id, item.quantity + quantity, item.unit_price)
               ELSE item>>
             \o MergeLoop(Tail(its), product_id, quantity)

\* Mutant: the merge takes the unit price of the call instead of the entry's.
Cart_add_item_NewPrice(its, product_id, unit_price, quantity) ==
    IF quantity <= 0
    THEN [raised |-> "ValueError", items |-> its]
    ELSE LET found == \E i \in DOMAIN its : its[i].product_id = product_id
             upd == [i \in DOMAIN its |->
                        IF its[i].product_id = product_id
                        THEN CartItem(product_id, its[i].quantity + quantity, unit_price)
                        ELSE its[i]]
         IN  [raised |-> None,
              items |-> IF found THEN upd
                        ELSE Append(upd, CartItem(product_id, quantity, unit_price))]

\* Mutant: the new entry is appended whether or not the product was found.
Cart_add_item_AlwaysAppend(its, product_id, unit_price, quantity) ==
    IF quantity <= 0
    THEN [raised |-> "ValueError", items |-> its]
    ELSE [raised |-> None,
          items |-> Append(its, CartItem(product_id, quantity, unit_price))]

\* Mutant: the quantity check is missing.
Cart_add_item_NoCheck(its, product_id, unit_price, quantity) ==
    LET found == \E i \in DOMAIN its : its[i].product_id = product_id
        updated_items == MergeLoop(its, product_id, quantity)
    IN  [raised |-> None,
         items |-> IF found THEN updated_items
                   ELSE Append(updated_items, CartItem(product_id, quantity, unit_price))]

\* Mutant: a merged entry is moved to the end of the list.
Cart_add_item_MoveToEnd(its, product_id, unit_price, quantity) ==
    IF quantity <= 0
    THEN [raised |-> "ValueError", items |-> its]
    ELSE LET found == \E i \in DOMAIN its : its[i].product_id = product_id
             others == SelectSeq(its, LAMBDA item : item.product_id # product_id)
             merged == SelectSeq(MergeLoop(its, product_id, quantity),
                                 LAMBDA item : item.product_id = product_id)
         IN  [raised |-> None,
              items |-> IF found THEN others \o merged
                        ELSE Append(its, CartItem(product_id, quantity, unit_price))]

\* Cart.add_item: the exception raised (None when it returns) and self.items
\* afterwards.
Cart_add_item(its, product_id, unit_price, quantity) ==
    IF quantity <= 0
    THEN [raised |-> "ValueError", items |-> its]
    ELSE LET found == \E i \in DOMAIN its : its[i].product_id = product_id
             updated_items == MergeLoop(its, product_id, quantity)
         IN  [raised |-> None,
              items |-> IF found THEN updated_items
                        ELSE Append(updated_items,
                                    CartItem(product_id, quantity, unit_price))]

\* Cart.total_amount
Cart_total_amount(its) ==
    SumSeq([i \in DOMAIN its |-> its[i].unit_price * its[i].quantity])

NoCall == [op |-> None]

CartInit ==
    /\ cart_items = <<>>
    /\ cart_outcome = None
    /\ cart_call = NoCall
    /\ cart_history = <<>>
    /\ cart_ncalls = 0

CartAddItem ==
    /\ cart_ncalls < MaxCartCalls
    /\ \E product_id \in Products, unit_price \in Prices, quantity \in Quantities :
          LET call == [op |-> "add_item", product_id |-> product_id,
                       unit_price |-> unit_price, quantity |-> quantity]
              r == Cart_add_item(cart_items, product_id, unit_price, quantity)
          IN  /\ cart_items' = r.items
              /\ cart_outcome' = IF r.raised = None THEN "ok" ELSE r.raised
              /\ cart_call' = call
              /\ cart_history' = IF r.raised = None THEN Append(cart_history, call)
                                 ELSE cart_history
              /\ cart_ncalls' = cart_ncalls + 1
    /\ UNCHANGED <<orderVars, regVars, resVars, discVars, storeVars, sessVars>>

(***************************************************************************)
(* Order (app/core/domain/order/order.py)                                  *)
(***************************************************************************)
OrderStatus == {"PENDING", "CONFIRMED", "SHIPPED", "DELIVERED", "CANCELLED"}

OrderItem(item_id, product_id, quantity, unit_price) ==
    [item_id |-> item_id, product_id |-> product_id, quantity |-> quantity,
     unit_price |-> unit_price]

Order(its, shipping_address, status) ==
    [items |-> its, shipping_address |-> shipping_address, status |-> status]

\* Mutant: the check for an existing item id is missing.
Order_add_item_NoDupCheck(o, item_id, product_id, quantity, unit_price) ==
    IF quantity <= 0 THEN [raised |-> "ValueError", order |-> o]
    ELSE IF o.status # "PENDING" THEN [raised |-> "ValueError", order |-> o]
    ELSE [raised |-> None,
          order |-> [o EXCEPT !.items =
                        Append(@, OrderItem(item_id, product_id, quantity, unit_price))]]

\* Order.add_item
Order_add_item(o, item_id, product_id, quantity, unit_price) ==
    IF quantity <= 0 THEN [raised |-> "ValueError", order |-> o]
    ELSE IF o.status # "PENDING" THEN [raised |-> "ValueError", order |-> o]
    ELSE IF \E i \in DOMAIN o.items : o.items[i].item_id = item_id
         THEN [raised |-> "ValueError", order |-> o]
    ELSE [raised |-> None,
          order |-> [o EXCEPT !.items =
                        Append(@, OrderItem(item_id, product_id, quantity, unit_price))]]

\* Mutant: the check for a shipping address is missing.
Order_confirm_NoAddressCheck(o) ==
    IF o.status # "PENDING" THEN [raised |-> "ValueError", order |-> o]
    ELSE IF o.items = <<>> THEN [raised |-> "ValueError", order |-> o]
    ELSE [raised |-> None, order |-> [o EXCEPT !.status = "CONFIRMED"]]

\* Mutant: the status check of confirm is missing.
Order_confirm_AnyStatus(o) ==
    IF o.items = <<>> THEN [raised |-> "ValueError", order |-> o]
    ELSE IF o.shipping_address = None THEN [raised |-> "ValueError", order |-> o]
    ELSE [raised |-> None, order |-> [o EXCEPT !.status = "CONFIRMED"]]

\* Order.confirm
Order_confirm(o) ==
    IF o.status # "PENDING" THEN [raised |-> "ValueError", order |-> o]
    ELSE IF o.items = <<>> THEN [raised |-> "ValueError", order |-> o]
    ELSE IF o.shipping_address = None THEN [raised |-> "ValueError", order |-> o]
    ELSE [raised |-> None, order |-> [o EXCEPT !.status = "CONFIRMED"]]

\* Mutant: a shipped order can no longer be cancelled.
Order_cancel_NotShipped(o) ==
    IF o.status \in {"SHIPPED", "DELIVERED", "CANCELLED"}
    THEN [raised |-> "ValueError", order |-> o]
    ELSE [raised |-> None, order |-> [o EXCEPT !.status = "CANCELLED"]]

\* Mutant: the status is assigned before the check.
Order_cancel_AssignFirst(o) ==
    IF o.status \in {"DELIVERED", "CANCELLED"}
    THEN [raised |-> "ValueError", order |-> [o EXCEPT !.status = "CANCELLED"]]
    ELSE [raised |-> None, order |-> [o EXCEPT !.status = "CANCELLED"]]

\* Order.cancel
Order_cancel(o) ==
    IF o.status \in {"DELIVERED", "CANCELLED"}
    THEN [raised |-> "ValueError", order |-> o]
    ELSE [raised |-> None, order |-> [o EXCEPT !.status = "CANCELLED"]]

TheOrder == Order(order_items, order_address, order_status)

\* The order after an operation, and what the operation raised.
OrderStep(call, r) ==
    /\ order_items' = r.order.items
    /\ order_status' = r.order.status
    /\ order_address' = r.order.shipping_address
    /\ order_outcome' = IF r.raised = None THEN "ok" ELSE r.raised
    /\ order_call' = call
    /\ order_ncalls' = order_ncalls + 1
    /\ order_confirms' = IF call.op = "confirm" /\ r.raised = None
                         THEN order_confirms + 1 ELSE order_confirms
    /\ UNCHANGED order_initial
    /\ UNCHANGED <<cartVars, regVars, resVars, discVars, storeVars, sessVars>>

OrderAddItem ==
    /\ order_ncalls < MaxOrderCalls
    /\ \E item_id \in ItemIds, product_id \in Products, quantity \in Quantities,
          unit_price \in Prices :
          OrderStep([op |-> "add_item", item_id |-> item_id, product_id |-> product_id,
                     quantity |-> quantity, unit_price |-> unit_price],
                    Order_add_item(TheOrder, item_id, product_id, quantity, unit_price))

OrderConfirm ==
    /\ order_ncalls < MaxOrderCalls
    /\ OrderStep([op |-> "confirm"], Order_confirm(TheOrder))

OrderCancel ==
    /\ order_ncalls < MaxOrderCalls
    /\ OrderStep([op |-> "cancel"], Order_cancel(TheOrder))

\* Order(order_id, user_id) with the defaults of items and status; the
\* shipping address is a constructor argument.
OrderInit ==
    /\ order_items = <<>>
    /\ order_status = "PENDING"
    /\ order_address \in {None, Address}
    /\ order_outcome = None
    /\ order_call = NoCall
    /\ order_ncalls = 0
    /\ order_initial = order_status
    /\ order_confirms = 0

\* The item lists an order is constructed with in SpecOrderAny.
SomeItem == OrderItem("i1", "p1", 1, 50)
InitialOrderItems == {<<>>, <<SomeItem>>}

\* Order(...) with every field given by the caller.
OrderAnyInit ==
    /\ order_items \in InitialOrderItems
    /\ order_status \in OrderStatus
    /\ order_address \in {None, Address}
    /\ order_outcome = None
    /\ order_call = NoCall
    /\ order_ncalls = 0
    /\ order_initial = order_status
    /\ order_confirms = 0

(***************************************************************************)
(* The classes and module files the wiring works on.  They are its inputs: *)
(* the real cart classes, and further classes that follow the same naming  *)
(* convention.  A class name is the sequence of its words, so that         *)
(* str.endswith and str.replace act on it as they do on the string.        *)
(***************************************************************************)
Session == "Session"
Empty == "empty"

Param(name, annotation, required) ==
    [name |-> name, annotation |-> annotation, required |-> required]

Class(name, abstract, init) == [name |-> name, abstract |-> abstract, init |-> init]

\* class id |-> name, inspect.isabstract, parameters of __init__ after self
ClassDef ==
    [CartRepository |-> Class(<<"Cart", "Repository">>, TRUE, <<>>),
     OrderRepository |-> Class(<<"Order", "Repository">>, TRUE, <<>>),
     FooRepository |-> Class(<<"Foo", "Repository">>, TRUE, <<>>),
     CartRepositoryImpl |->
        Class(<<"Cart", "Repository", "Impl">>, FALSE,
              <<Param("session", Session, TRUE)>>),
     OrderRepositoryImpl |->
        Class(<<"Order", "Repository", "Impl">>, FALSE,
              <<Param("session", Session, TRUE),
                Param("cart_repo", "CartRepository", TRUE)>>),
     FooRepositoryImpl |->
        Class(<<"Foo", "Repository", "Impl">>, FALSE,
              <<Param("session", Session, TRUE)>>),
     SqlAlchemyRepositoryBase |->
        Class(<<"SqlAlchemy", "Repository", "Base">>, FALSE,
              <<Param("session", Session, TRUE), Param("model", "Type", TRUE)>>),
     Cart |-> Class(<<"Cart">>, FALSE, <<Param("user_id", "str", TRUE)>>),
     CartService |->
        Class(<<"Cart", "Service">>, FALSE,
              <<Param("cart_repo", "CartRepository", TRUE)>>),
     OrderService |->
        Class(<<"Order", "Service">>, FALSE,
              <<Param("order_repo", "OrderRepository", TRUE),
                Param("cart_repo", "CartRepository", TRUE)>>),
     FooService |->
        Class(<<"Foo", "Service">>, FALSE,
              <<Param("cart_repo", "CartRepository", TRUE),
                Param("foo_repo", "FooRepository", TRUE)>>),
     BarService |->
        Class(<<"Bar", "Service">>, FALSE,
              <<Param("cart_repo", "CartRepository", TRUE),
                Param("foo_repo", "FooRepository", FALSE),
                Param("label", Empty, FALSE)>>),
     BarRepository |-> Class(<<"Bar", "Repository">>, TRUE, <<>>),
     BarRepositoryImpl |->
        Class(<<"Bar", "Repository", "Impl">>, TRUE,
              <<Param("session", Session, TRUE)>>),
     RepositoryAuditRepository |->
        Class(<<"Repository", "Audit", "Repository">>, TRUE, <<>>),
     RepositoryAuditRepositoryImpl |->
        Class(<<"Repository", "Audit", "Repository", "Impl">>, FALSE,
              <<Param("session", Session, TRUE)>>),
     OrderBackedCartRepositoryImpl |->
        Class(<<"Order", "Backed", "Cart", "Repository", "Impl">>, FALSE,
              <<Param("session", Session, TRUE),
                Param("order_repo", "OrderRepository", TRUE)>>)]

ClassIds == DOMAIN ClassDef
Contracts == {"CartRepository", "OrderRepository", "FooRepository"}
Impls == {"CartRepositoryImpl", "OrderRepositoryImpl", "FooRepositoryImpl"}
Services == {"CartService", "OrderService", "FooService"}

CoreRepositories == "app.core.repositories"
InfraRepositories == "app.infra.db.repositories"
CoreServices == "app.core.services"

Module(package, classes) == [package |-> package, classes |-> classes]

\* module file |-> its package and the classes inspect.getmembers finds in
\* it (the classes it defines and the classes it imports)
ModuleDef ==
    [cart_repository |-> Module(CoreRepositories, {"CartRepository", "Cart"}),
     order_repository |-> Module(CoreRepositories, {"OrderRepository"}),
     foo_repository |-> Module(CoreRepositories, {"FooRepository"}),
     cart_repository_impl |->
        Module(InfraRepositories,
               {"CartRepositoryImpl", "CartRepository", "SqlAlchemyRepositoryBase",
                "Cart"}),
     order_repository_impl |->
        Module(InfraRepositories,
               {"OrderRepositoryImpl", "OrderRepository", "CartRepository",
                "SqlAlchemyRepositoryBase"}),
     foo_repository_impl |->
        Module(InfraRepositories, {"FooRepositoryImpl", "FooRepository"}),
     cart_service |-> Module(CoreServices, {"CartService", "CartRepository", "Cart"}),
     order_service |->
        Module(CoreServices, {"OrderService", "OrderRepository", "CartRepository"}),
     foo_service |->
        Module(CoreServices, {"FooService", "FooRepository", "CartRepository"}),
     bar_service |->
        Module(CoreServices, {"BarService", "FooRepository", "CartRepository"}),
     bar_repository |-> Module(CoreRepositories, {"BarRepository"}),
     bar_repository_impl |->
        Module(InfraRepositories, {"BarRepositoryImpl", "BarRepository"}),
     repository_audit_repository |->
        Module(CoreRepositories, {"RepositoryAuditRepository"}),
     repository_audit_repository_impl |->
        Module(InfraRepositories,
               {"RepositoryAuditRepositoryImpl", "RepositoryAuditRepository"})]

ModuleFiles == DOMAIN ModuleDef

\* The module files of the cart, order and foo classes.
AppFiles ==
    {"cart_repository", "order_repository", "foo_repository", "cart_repository_impl",
     "order_repository_impl", "foo_repository_impl", "cart_service", "order_service",
     "foo_service"}

\* The deployments: foo_repository_impl.py exists or not, and
\* order_repository_impl.py imports or raises on import.
Deployments ==
    {[files |-> AppFiles \ missing, broken |-> broken] :
        missing \in {{}, {"foo_repository_impl"}},
        broken \in {{}, {"order_repository_impl"}}}

(***************************************************************************)
(* Auto-discovery (app/infra/wiring/auto_discovery.py)                     *)
(***************************************************************************)
\* name.endswith(suffix)
EndsWith(name, suffix) ==
    /\ Len(name) >= Len(suffix)
    /\ SubSeq(name, Len(name) - Len(suffix) + 1, Len(name)) = suffix

\* name.replace(old, new) for a one-word old: every occurrence is replaced.
RECURSIVE StrReplace(_, _, _)
StrReplace(name, old, new) ==
    IF name = <<>> THEN <<>>
    ELSE (IF Head(name) = old THEN new ELSE <<Head(name)>>)
         \o StrReplace(Tail(name), old, new)

\* The classes of the modules of a package that exist and import; a module
\* that raises on import is skipped.
MembersOf(d, package) ==
    UNION {ModuleDef[m].classes :
              m \in {f \in d.files : ModuleDef[f].package = package /\ f \notin d.broken}}

\* _scan_repository_interfaces: the classes found, keyed by name
ScanRepositoryInterfaces(d) ==
    {c \in MembersOf(d, CoreRepositories) :
        /\ EndsWith(ClassDef[c].name, <<"Repository">>)
        /\ ClassDef[c].name # <<"Repository">>
        /\ ClassDef[c].abstract}

\* _scan_repository_implementations
ScanRepositoryImplementations(d) ==
    {c \in MembersOf(d, InfraRepositories) :
        /\ EndsWith(ClassDef[c].name, <<"Repository", "Impl">>)
        /\ ~ClassDef[c].abstract}

\* _scan_service_classes
ScanServiceClasses(d) ==
    {c \in MembersOf(d, CoreServices) :
        /\ EndsWith(ClassDef[c].name, <<"Service">>)
        /\ ~ClassDef[c].abstract
        /\ ClassDef[c].name # <<"Service">>}

\* The implementation of the expected name for an interface, None if absent.
ImplementationFor(d, interface) ==
    LET impl_name == StrReplace(ClassDef[interface].name, "Repository",
                                <<"Repository", "Impl">>)
        found == {i \in ScanRepositoryImplementations(d) : ClassDef[i].name = impl_name}
    IN  IF found = {} THEN None ELSE CHOOSE i \in found : TRUE

\* discover_repositories: the dict it returns, one entry for each interface
\* found whose expected implementation name was found
RepositoryMap(d) ==
    [c \in {i \in ScanRepositoryInterfaces(d) : ImplementationFor(d, i) # None} |->
        ImplementationFor(d, c)]

\* The same dict as the registry reads it with .get(): None where a contract
\* has no entry.
DiscoverRepositories(d) ==
    CHOOSE view \in {[c \in Contracts |-> IF c \in DOMAIN rm THEN rm[c] ELSE None] :
                        rm \in {RepositoryMap(d)}} : TRUE

\* discover_services
DiscoverServices(d) == ScanServiceClasses(d)

\* The classes a caller can import, to pass them to register_repository.
Importable(d) == UNION {ModuleDef[m].classes : m \in d.files \ d.broken}

\* class id |-> the module file that defines it (cart and base_repository are
\* not scanned, and always import)
DefinedIn ==
    [CartRepository |-> "cart_repository",
     OrderRepository |-> "order_repository",
     FooRepository |-> "foo_repository",
     BarRepository |-> "bar_repository",
     RepositoryAuditRepository |-> "repository_audit_repository",
     CartRepositoryImpl |-> "cart_repository_impl",
     OrderRepositoryImpl |-> "order_repository_impl",
     FooRepositoryImpl |-> "foo_repository_impl",
     BarRepositoryImpl |-> "bar_repository_impl",
     RepositoryAuditRepositoryImpl |-> "repository_audit_repository_impl",
     CartService |-> "cart_service",
     OrderService |-> "order_service",
     FooService |-> "foo_service",
     BarService |-> "bar_service",
     Cart |-> "cart",
     SqlAlchemyRepositoryBase |-> "base_repository"]

\* The scanned module files that module file m imports a class from.
Imports(m) == ({DefinedIn[c] : c \in ModuleDef[m].classes} \ {m}) \cap ModuleFiles

\* A module that imports from a module that is absent or raises on import
\* raises on import itself.
Consistent(d) ==
    /\ d.broken \subseteq d.files
    /\ \A m \in d.files :
          (Imports(m) \cap (d.broken \cup (ModuleFiles \ d.files)) # {}) => m \in d.broken

\* The deployments the scans are run on: every module file is there, or one
\* implementation module is absent, and any of the modules raise on import.
DiscoveryDeployments ==
    {d \in [files : {ModuleFiles, ModuleFiles \ {"foo_repository_impl"}},
            broken : SUBSET ModuleFiles] : Consistent(d)}

\* importlib.import_module(full_module_name): the exception raised, if any
Import(d, m) == IF m \in d.broken THEN "ImportError" ELSE None

\* Mutant: the scan loop has no handler.
ScanCatches_Nothing(exc) == FALSE

\* `except Exception as e: continue` of the three scan loops
ScanCatches(exc) == exc \in {"ImportError", "SyntaxError", "Exception"}

\* The module files the glob of a scan of the package yields.
ScannedFiles(d, package) == {f \in d.files : ModuleDef[f].package = package}

\* The exception a scan of the packages ends with, None if it returns.
ScanRaised(d, packages) ==
    LET uncaught == {m \in UNION {ScannedFiles(d, p) : p \in packages} :
                        Import(d, m) # None /\ ~ScanCatches(Import(d, m))}
    IN  IF uncaught = {} THEN None ELSE Import(d, CHOOSE m \in uncaught : TRUE)

\* No function of auto_discovery.py has been called.
DiscoveryInit ==
    /\ disc_call = NoCall
    /\ disc_outcome = None
    /\ disc_ret = {}
    /\ disc_ncalls = 0

\* The state after function op scanned the packages and, unless an exception
\* left a loop, returned ret.
DiscStep(op, packages, ret) ==
    /\ disc_ncalls < MaxDiscoveryCalls
    /\ disc_call' = [op |-> op]
    /\ disc_outcome' = IF ScanRaised(dep, packages) = None THEN "ok"
                       ELSE ScanRaised(dep, packages)
    /\ disc_ret' = IF ScanRaised(dep, packages) = None THEN ret ELSE {}
    /\ disc_ncalls' = disc_ncalls + 1
    /\ UNCHANGED <<domainVars, regVars, resVars, storeVars, sessVars>>

DiscScanInterfaces ==
    DiscStep("_scan_repository_interfaces", {CoreRepositories},
             ScanRepositoryInterfaces(dep))

DiscScanImplementations ==
    DiscStep("_scan_repository_implementations", {InfraRepositories},
             ScanRepositoryImplementations(dep))

DiscScanServices ==
    DiscStep("_scan_service_classes", {CoreServices}, ScanServiceClasses(dep))

DiscDiscoverRepositories ==
    DiscStep("discover_repositories", {CoreRepositories, InfraRepositories},
             RepositoryMap(dep))

DiscDiscoverServices ==
    DiscStep("discover_services", {CoreServices}, DiscoverServices(dep))

(***************************************************************************)
(* Dependency registry (app/infra/wiring/registry.py), one process-wide    *)
(* instance used by several threads.  A thread runs one method at a time;  *)
(* th_pc is the statement it is about to execute.                          *)
(***************************************************************************)
Threads == 1..NumThreads

EmptyMap == [c \in Contracts |-> None]

\* DependencyRegistry.__init__, and no call made yet, in one of the
\* deployments ds
RegistryInitIn(ds) ==
    /\ dep \in ds
    /\ reg_map = EmptyMap
    /\ reg_services = {}
    /\ reg_initialized = FALSE
    /\ reg_scans = [repos |-> 0, services |-> 0]
    /\ reg_manual = EmptyMap
    /\ reg_nreg = 0
    /\ th_pc = [t \in Threads |-> "idle"]
    /\ th_op = [t \in Threads |-> NoCall]
    /\ th_ret = [t \in Threads |-> None]

RegistryInit == RegistryInitIn(Deployments)

\* The calls of the three methods that initialise the registry lazily.
LookupOps ==
    {[op |-> "get_all_services"]}
    \cup {[op |-> o, interface |-> c] :
             o \in {"get_repository_implementation", "is_registered"}, c \in Contracts}

RegistryOps == LookupOps \cup {[op |-> "initialize"]}

\* Where a thread continues when initialize() returns.
AfterInitialize(t) == IF th_op[t].op = "initialize" THEN "idle" ELSE "lookup"

\* `if not self._initialized: self.initialize()` of the three lookup methods
AfterCheck(initialized) == IF initialized THEN "lookup" ELSE "init_check"

\* A thread calls one of the methods ops of the registry.
RegCall(t, ops) ==
    /\ th_pc[t] = "idle"
    /\ \E o \in ops :
          /\ th_op' = [th_op EXCEPT ![t] = o]
          /\ th_pc' = [th_pc EXCEPT ![t] = IF o.op = "initialize" THEN "init_check"
                                           ELSE "check"]
    /\ UNCHANGED <<domainVars, resVars, discVars, storeVars, sessVars>>
    /\ UNCHANGED <<dep, reg_map, reg_services, reg_initialized, reg_scans, reg_manual,
                   reg_nreg, th_ret>>

RegCheck(t) ==
    /\ th_pc[t] = "check"
    /\ th_pc' = [th_pc EXCEPT ![t] = AfterCheck(reg_initialized)]
    /\ UNCHANGED <<domainVars, resVars, discVars, storeVars, sessVars>>
    /\ UNCHANGED <<dep, reg_map, reg_services, reg_initialized, reg_scans, reg_manual,
                   reg_nreg, th_op, th_ret>>

\* Mutant: initialize() scans whether or not the flag is set.
AfterInitCheck_NoGuard(initialized, done) == "scan_repos"

\* initialize: `if self._initialized: return`; done is where the caller
\* continues.
AfterInitCheck(initialized, done) == IF initialized THEN done ELSE "scan_repos"

RegInitCheck(t) ==
    /\ th_pc[t] = "init_check"
    /\ th_pc' = [th_pc EXCEPT ![t] = AfterInitCheck(reg_initialized, AfterInitialize(t))]
    /\ UNCHANGED <<domainVars, resVars, discVars, storeVars, sessVars>>
    /\ UNCHANGED <<dep, reg_map, reg_services, reg_initialized, reg_scans, reg_manual,
                   reg_nreg, th_op, th_ret>>

\* initialize: discover_repositories() runs
RegScanRepos(t) ==
    /\ th_pc[t] = "scan_repos"
    /\ reg_scans' = [reg_scans EXCEPT !.repos = @ + 1]
    /\ th_pc' = [th_pc EXCEPT ![t] = "store_repos"]
    /\ UNCHANGED <<domainVars, resVars, discVars, storeVars, sessVars>>
    /\ UNCHANGED <<dep, reg_map, reg_services, reg_initialized, reg_manual, reg_nreg,
                   th_op, th_ret>>

\* initialize: its result is assigned to self._repository_map
RegStoreRepos(t) ==
    /\ th_pc[t] = "store_repos"
    /\ reg_map' = DiscoverRepositories(dep)
    /\ th_pc' = [th_pc EXCEPT ![t] = "scan_services"]
    /\ UNCHANGED <<domainVars, resVars, discVars, storeVars, sessVars>>
    /\ UNCHANGED <<dep, reg_services, reg_initialized, reg_scans, reg_manual, reg_nreg,
                   th_op, th_ret>>

\* initialize: discover_services() runs
RegScanServices(t) ==
    /\ th_pc[t] = "scan_services"
    /\ reg_scans' = [reg_scans EXCEPT !.services = @ + 1]
    /\ th_pc' = [th_pc EXCEPT ![t] = "store_services"]
    /\ UNCHANGED <<domainVars, resVars, discVars, storeVars, sessVars>>
    /\ UNCHANGED <<dep, reg_map, reg_services, reg_initialized, reg_manual, reg_nreg,
                   th_op, th_ret>>

\* initialize: its result is assigned to self._services
RegStoreServices(t) ==
    /\ th_pc[t] = "store_services"
    /\ reg_services' = DiscoverServices(dep)
    /\ th_pc' = [th_pc EXCEPT ![t] = "set_flag"]
    /\ UNCHANGED <<domainVars, resVars, discVars, storeVars, sessVars>>
    /\ UNCHANGED <<dep, reg_map, reg_initialized, reg_scans, reg_manual, reg_nreg,
                   th_op, th_ret>>

\* initialize: `self._initialized = True`
RegSetFlag(t) ==
    /\ th_pc[t] = "set_flag"
    /\ reg_initialized' = TRUE
    /\ th_pc' = [th_pc EXCEPT ![t] = AfterInitialize(t)]
    /\ UNCHANGED <<domainVars, resVars, discVars, storeVars, sessVars>>
    /\ UNCHANGED <<dep, reg_map, reg_services, reg_scans, reg_manual, reg_nreg,
                   th_op, th_ret>>

\* The return statement of the three lookup methods.
LookupResult(o, map, services) ==
    CASE o.op = "get_repository_implementation" -> map[o.interface]
      [] o.op = "is_registered" -> map[o.interface] # None
      [] o.op = "get_all_services" -> services

RegLookup(t) ==
    /\ th_pc[t] = "lookup"
    /\ th_ret' = [th_ret EXCEPT ![t] = LookupResult(th_op[t], reg_map, reg_services)]
    /\ th_pc' = [th_pc EXCEPT ![t] = "idle"]
    /\ UNCHANGED <<domainVars, resVars, discVars, storeVars, sessVars>>
    /\ UNCHANGED <<dep, reg_map, reg_services, reg_initialized, reg_scans, reg_manual,
                   reg_nreg, th_op>>

\* register_repository: `self._repository_map[interface] = implementation`
RegisteredMap(map, interface, implementation) ==
    [map EXCEPT ![interface] = implementation]

\* A thread that runs no other method calls register_repository.
RegRegister(t) ==
    /\ th_pc[t] = "idle"
    /\ reg_nreg < MaxRegistrations
    /\ \E c \in Contracts, i \in Impls \cap Importable(dep) :
          /\ reg_map' = RegisteredMap(reg_map, c, i)
          /\ reg_manual' = [reg_manual EXCEPT ![c] = i]
    /\ reg_nreg' = reg_nreg + 1
    /\ UNCHANGED <<domainVars, resVars, discVars, storeVars, sessVars>>
    /\ UNCHANGED <<dep, reg_services, reg_initialized, reg_scans, th_pc, th_op, th_ret>>

\* The steps of a thread inside the lookup methods and initialize().
RegThread(t, ops) ==
    \/ RegCall(t, ops)
    \/ RegCheck(t)
    \/ RegInitCheck(t)
    \/ RegScanRepos(t)
    \/ RegStoreRepos(t)
    \/ RegScanServices(t)
    \/ RegStoreServices(t)
    \/ RegSetFlag(t)
    \/ RegLookup(t)

(***************************************************************************)
(* The registry as one thread uses it: each method runs to its end.        *)
(***************************************************************************)
TheRegistry ==
    [map |-> reg_map, services |-> reg_services, initialized |-> reg_initialized,
     scans |-> reg_scans]

\* DependencyRegistry.initialize
Registry_initialize(reg, d) ==
    IF reg.initialized THEN reg
    ELSE [map |-> DiscoverRepositories(d),
          services |-> DiscoverServices(d),
          initialized |-> TRUE,
          scans |-> [repos |-> reg.scans.repos + 1, services |-> reg.scans.services + 1]]

\* DependencyRegistry.get_repository_implementation: the registry afterwards
\* and the value returned (`self._repository_map.get(interface)`)
Registry_get_repository_implementation(reg, d, interface) ==
    LET r == IF ~reg.initialized THEN Registry_initialize(reg, d) ELSE reg
    IN  [reg |-> r,
         ret |-> IF interface \in DOMAIN r.map THEN r.map[interface] ELSE None]

(***************************************************************************)
(* Dependency resolver (app/infra/wiring/dependency_resolver.py) and the   *)
(* factories (app/infra/wiring/factories.py).  A resolution works on       *)
(*   m = [heap, cache, reg, bound, built]                                  *)
(* and returns it with a value and the exception raised (None if none).    *)
(***************************************************************************)
Sessions == {"s1", "s2"}

\* The values a parameter is bound to: an object, the session, Python's None;
\* Unbound marks a parameter that got no argument.
Obj(id) == [obj |-> id]
Sess(session) == [session |-> session]
Nil == [nil |-> TRUE]
Unbound == [unbound |-> TRUE]
EmptyCache == [c \in Contracts |-> Nil]

ParamNames(cls) == {ClassDef[cls].init[k].name : k \in DOMAIN ClassDef[cls].init}
NoArguments(cls) == [n \in ParamNames(cls) |-> Unbound]

Result(m, ret, exc) == [m |-> m, ret |-> ret, exc |-> exc]

\* cls(**args): TypeError when a parameter without default gets no argument,
\* else a new object.
Construct(m, rid, cls, args) ==
    IF \E k \in DOMAIN ClassDef[cls].init :
          ClassDef[cls].init[k].required /\ args[ClassDef[cls].init[k].name] = Unbound
    THEN Result(m, Nil, "TypeError")
    ELSE Result([m EXCEPT !.heap = Append(@, [cls |-> cls, args |-> args,
                                              resolver |-> rid])],
                Obj(Len(m.heap) + 1), None)

\* Mutant: the instance is not stored in the cache.
CacheStore_Skip(cache, dependency_type, instance) == cache

\* `self._cache[dependency_type] = instance`
CacheStore(cache, dependency_type, instance) ==
    [cache EXCEPT ![dependency_type] = instance]

\* Mutant: an unresolved dependency is bound as None.
IsResolved_Always(dependency) == TRUE

\* `if dependency is not None`
IsResolved(dependency) == dependency # Nil

\* The edge (owner.name : type) of resolver rid is bound to value.
Bind(m, rid, owner, name, type, value) ==
    [m EXCEPT !.bound = @ \cup {[resolver |-> rid, owner |-> owner, param |-> name,
                                 type |-> type, obj |-> value]}]

\* The element of a one-element set.  {F(x) : x \in {e}} evaluates e once and
\* hands its value to F.
The(S) == CHOOSE x \in S : TRUE

RECURSIVE ResolveDependency(_, _, _, _, _)
RECURSIVE CreateRepositoryInstance(_, _, _, _, _)
RECURSIVE RepositoryParams(_, _, _, _, _, _, _)
RECURSIVE ServiceParams(_, _, _, _, _, _)

\* _resolve_dependency after `instance = self._create_repository_instance(..)`
\* ended with c: the instance is cached and returned.
Resolved(c, rid, dependency_type) ==
    IF c.exc # None THEN c
    ELSE Result([c.m EXCEPT !.cache = CacheStore(@, dependency_type, c.ret),
                            !.built = @ \cup {[resolver |-> rid,
                                               type |-> dependency_type,
                                               obj |-> c.ret]}],
                c.ret, None)

\* _resolve_dependency after the registry returned g.
ResolveWith(m, rid, sess, dependency_type, depth, g) ==
    IF g.ret # None
    THEN The({Resolved(c, rid, dependency_type) :
                 c \in {CreateRepositoryInstance([m EXCEPT !.reg = g.reg], rid, sess,
                                                 g.ret, depth + 1)}})
    ELSE Result([m EXCEPT !.reg = g.reg], Nil, None)

\* DependencyResolver._resolve_dependency.  A call nested deeper than
\* MaxDepth stands for Python's recursion limit.
ResolveDependency(m, rid, sess, dependency_type, depth) ==
    IF depth > MaxDepth THEN Result(m, Nil, "RecursionError")
    ELSE IF dependency_type \in DOMAIN m.cache /\ m.cache[dependency_type] # Nil
    THEN Result(m, m.cache[dependency_type], None)
    ELSE IF dependency_type = Session THEN Result(m, Sess(sess), None)
    ELSE The({ResolveWith(m, rid, sess, dependency_type, depth, g) :
                 g \in {Registry_get_repository_implementation(m.reg, dep,
                                                               dependency_type)}})

\* _create_repository_instance: parameter p after _resolve_dependency ended
\* with d, then the parameters from the k-th.
RepositoryParamsWith(d, rid, sess, impl_class, k, p, params, depth) ==
    IF d.exc # None THEN Result(d.m, params, d.exc)
    ELSE IF IsResolved(d.ret)
    THEN RepositoryParams(Bind(d.m, rid, impl_class, p.name, p.annotation, d.ret),
                          rid, sess, impl_class, k, [params EXCEPT ![p.name] = d.ret],
                          depth)
    ELSE RepositoryParams(d.m, rid, sess, impl_class, k, params, depth)

\* The loop of _create_repository_instance over the parameters from the k-th.
RepositoryParams(m, rid, sess, impl_class, k, params, depth) ==
    IF k > Len(ClassDef[impl_class].init) THEN Result(m, params, None)
    ELSE LET p == ClassDef[impl_class].init[k]
         IN  IF p.annotation = Session
             THEN RepositoryParams(m, rid, sess, impl_class, k + 1,
                                   [params EXCEPT ![p.name] = Sess(sess)], depth)
             ELSE IF p.annotation = Empty
             THEN RepositoryParams(m, rid, sess, impl_class, k + 1, params, depth)
             ELSE The({RepositoryParamsWith(d, rid, sess, impl_class, k + 1, p, params,
                                            depth) :
                          d \in {ResolveDependency(m, rid, sess, p.annotation, depth)}})

\* `return impl_class(**params)` after the loop ended with b.
Constructed(b, rid, cls) ==
    IF b.exc # None THEN Result(b.m, Nil, b.exc) ELSE Construct(b.m, rid, cls, b.ret)

\* DependencyResolver._create_repository_instance
CreateRepositoryInstance(m, rid, sess, impl_class, depth) ==
    IF depth > MaxDepth THEN Result(m, Nil, "RecursionError")
    ELSE The({Constructed(b, rid, impl_class) :
                 b \in {RepositoryParams(m, rid, sess, impl_class, 1,
                                         NoArguments(impl_class), depth)}})

\* Mutant: a dependency that resolves to None is an error.
ServiceParamsWith_Raise(d, rid, sess, service_class, k, p, dependencies) ==
    IF d.exc # None THEN Result(d.m, dependencies, d.exc)
    ELSE IF IsResolved(d.ret)
    THEN ServiceParams(Bind(d.m, rid, service_class, p.name, p.annotation, d.ret),
                       rid, sess, service_class, k,
                       [dependencies EXCEPT ![p.name] = d.ret])
    ELSE Result(d.m, dependencies, "NotFound")

\* resolve_service_dependencies: parameter p after _resolve_dependency ended
\* with d, then the parameters from the k-th.
ServiceParamsWith(d, rid, sess, service_class, k, p, dependencies) ==
    IF d.exc # None THEN Result(d.m, dependencies, d.exc)
    ELSE IF IsResolved(d.ret)
    THEN ServiceParams(Bind(d.m, rid, service_class, p.name, p.annotation, d.ret),
                       rid, sess, service_class, k,
                       [dependencies EXCEPT ![p.name] = d.ret])
    ELSE ServiceParams(d.m, rid, sess, service_class, k, dependencies)

\* The loop of resolve_service_dependencies over the parameters from the k-th.
ServiceParams(m, rid, sess, service_class, k, dependencies) ==
    IF k > Len(ClassDef[service_class].init) THEN Result(m, dependencies, None)
    ELSE LET p == ClassDef[service_class].init[k]
         IN  IF p.annotation = Empty
             THEN ServiceParams(m, rid, sess, service_class, k + 1, dependencies)
             ELSE The({ServiceParamsWith(d, rid, sess, service_class, k + 1, p,
                                         dependencies) :
                          d \in {ResolveDependency(m, rid, sess, p.annotation, 1)}})

\* DependencyResolver.resolve_service_dependencies
ResolveServiceDependencies(m, rid, sess, service_class) ==
    ServiceParams(m, rid, sess, service_class, 1, NoArguments(service_class))

\* DependencyResolver.__init__
Resolver(session, cache, by) == [session |-> session, cache |-> cache, by |-> by]

\* Mutant: a new resolver starts with the cache of the resolver made last.
NewCache_Shared(rs) == IF rs = <<>> THEN EmptyCache ELSE rs[Len(rs)].cache

\* DependencyResolver.__init__: `self._cache = {}`, whatever resolvers rs exist
NewCache(rs) == EmptyCache

\* What a resolution starts from: the objects, a resolver's cache, the registry.
Machine(cache) ==
    [heap |-> heap, cache |-> cache, reg |-> TheRegistry, bound |-> res_bound,
     built |-> res_built]

\* factories.get_service
GetService(service_type, session) ==
    The({Constructed(d, Len(resolvers) + 1, service_type) :
            d \in {ResolveServiceDependencies(Machine(NewCache(resolvers)),
                                              Len(resolvers) + 1,
                                              session, service_type)}})

\* get_repository after `resolver._create_repository_instance(impl_class)`
\* ended with c.
Created(c, rid, repository_type) ==
    IF c.exc # None THEN c
    ELSE Result([c.m EXCEPT !.built = @ \cup {[resolver |-> rid,
                                               type |-> repository_type,
                                               obj |-> c.ret]}],
                c.ret, None)

\* get_repository after the registry returned g.
GetRepositoryWith(g, m, rid, repository_type, session) ==
    IF g.ret = None THEN Result([m EXCEPT !.reg = g.reg], Nil, "NotFound")
    ELSE The({Created(c, rid, repository_type) :
                 c \in {CreateRepositoryInstance([m EXCEPT !.reg = g.reg], rid, session,
                                                 g.ret, 1)}})

\* factories.get_repository
GetRepository(repository_type, session) ==
    The({GetRepositoryWith(g, Machine(NewCache(resolvers)), Len(resolvers) + 1,
                           repository_type, session) :
            g \in {Registry_get_repository_implementation(TheRegistry, dep,
                                                          repository_type)}})

\* No resolver exists and nothing has been constructed.
ResolverInit ==
    /\ resolvers = <<>>
    /\ heap = <<>>
    /\ res_bound = {}
    /\ res_built = {}
    /\ res_call = NoCall
    /\ res_outcome = None
    /\ res_ret = Nil
    /\ res_ncalls = 0

\* The state after a resolver or factory call that ended with r.
ResStep(call, r, rs) ==
    /\ resolvers' = rs
    /\ heap' = r.m.heap
    /\ res_bound' = r.m.bound
    /\ res_built' = r.m.built
    /\ reg_map' = r.m.reg.map
    /\ reg_services' = r.m.reg.services
    /\ reg_initialized' = r.m.reg.initialized
    /\ reg_scans' = r.m.reg.scans
    /\ res_call' = call
    /\ res_outcome' = IF r.exc = None THEN "ok" ELSE r.exc
    /\ res_ret' = r.ret
    /\ res_ncalls' = res_ncalls + 1
    /\ UNCHANGED <<dep, reg_manual, reg_nreg, th_pc, th_op, th_ret, domainVars, discVars,
                   storeVars, sessVars>>

\* DependencyResolver(session), kept by the caller for several resolutions.
ResNewResolver ==
    /\ res_ncalls < MaxResolverCalls
    /\ \E session \in Sessions :
          ResStep([op |-> "DependencyResolver", session |-> session],
                  Result(Machine(NewCache(resolvers)), Nil, None),
                  Append(resolvers, Resolver(session, NewCache(resolvers), "caller")))

\* resolve_service_dependencies, for a service class of ss, on a resolver the
\* caller keeps.
ResResolveServiceOf(ss) ==
    /\ res_ncalls < MaxResolverCalls
    /\ \E rid \in DOMAIN resolvers, service_class \in ss :
          /\ resolvers[rid].by = "caller"
          /\ \E r \in {ResolveServiceDependencies(Machine(resolvers[rid].cache), rid,
                                                  resolvers[rid].session,
                                                  service_class)} :
                 ResStep([op |-> "resolve_service_dependencies", resolver |-> rid,
                          service_class |-> service_class],
                         IF r.exc # None THEN Result(r.m, Nil, r.exc) ELSE r,
                         [resolvers EXCEPT ![rid].cache = r.m.cache])

ResResolveService == ResResolveServiceOf(Services)

\* get_service(service_type, session) for a service class of ss, with a
\* resolver of its own.
ResGetServiceOf(ss) ==
    /\ res_ncalls < MaxResolverCalls
    /\ \E service_type \in ss, session \in Sessions :
          \E r \in {GetService(service_type, session)} :
              ResStep([op |-> "get_service", service_type |-> service_type,
                       session |-> session],
                      r, Append(resolvers, Resolver(session, r.m.cache, "get_service")))

ResGetService == ResGetServiceOf(Services)

\* get_repository(repository_type, session), with a resolver of its own unless
\* it raises before creating one.
ResGetRepository ==
    /\ res_ncalls < MaxResolverCalls
    /\ \E repository_type \in Contracts, session \in Sessions :
          \E r \in {GetRepository(repository_type, session)} :
              ResStep([op |-> "get_repository", repository_type |-> repository_type,
                       session |-> session],
                      r,
                      IF r.exc = "NotFound" THEN resolvers
                      ELSE Append(resolvers,
                                  Resolver(session, r.m.cache, "get_repository")))

\* The manual registrations made while resolvers are in use.
ManualPairs ==
    {<<"FooRepository", "CartRepositoryImpl">>,
     <<"CartRepository", "FooRepositoryImpl">>}

\* The manual registrations that close a cycle: the implementation registered
\* for CartRepository requires OrderRepository, whose implementation requires
\* CartRepository; registered for OrderRepository, it requires its own
\* contract.
CyclicPairs ==
    {<<"CartRepository", "OrderBackedCartRepositoryImpl">>,
     <<"OrderRepository", "OrderBackedCartRepositoryImpl">>}

\* register_repository between two resolutions, with an implementation that
\* is not the one the contract is mapped to.
ResRegisterOf(pairs) ==
    /\ \E pair \in pairs :
          /\ reg_map[pair[1]] # pair[2]
          /\ reg_map' = RegisteredMap(reg_map, pair[1], pair[2])
          /\ reg_manual' = [reg_manual EXCEPT ![pair[1]] = pair[2]]
    /\ reg_nreg' = reg_nreg + 1
    /\ reg_nreg < MaxRegistrations
    /\ UNCHANGED <<dep, reg_services, reg_initialized, reg_scans, th_pc, th_op, th_ret,
                   domainVars, resVars, discVars, storeVars, sessVars>>

\* The registered class is one the caller can import.
ResRegister == ResRegisterOf({pair \in ManualPairs : pair[2] \in Importable(dep)})

\* The registered class is defined by the caller, outside the scanned packages.
ResRegisterCyclic == ResRegisterOf(CyclicPairs)

(***************************************************************************)
(* Cart persistence: the table cart_items (app/infra/db/models/            *)
(* cart_item.py), CartRepositoryImpl (app/infra/db/repositories/           *)
(* cart_repository_impl.py), CartService (app/core/services/               *)
(* cart_service.py) and the GET /cart handler (app/api/carts.py), used by  *)
(* one request at a time.                                                  *)
(***************************************************************************)
Users == {"u1", "u2"}

\* Cart(user_id, items)
Cart(user_id, its) == [user_id |-> user_id, items |-> its]

\* The carts passed to save: with no item, one item, two products in either
\* order, and one product twice.
SavedItemLists ==
    {<<>>,
     <<CartItem("p1", 2, 100)>>,
     <<CartItem("p1", 2, 100), CartItem("p2", 1, 50)>>,
     <<CartItem("p2", 1, 50), CartItem("p1", 2, 100)>>,
     <<CartItem("p1", 1, 50), CartItem("p1", 2, 100)>>}
SavedCarts == {Cart(u, its) : u \in Users, its \in SavedItemLists}

\* The arguments of CartService.add_item.
ServiceQuantities == {0, 1}

\* CartItemModel(user_id, product_id, quantity, unit_price) once inserted,
\* with the id the sequence gave it
CartItemModel(id, user_id, item) ==
    [id |-> id, user_id |-> user_id, product_id |-> item.product_id,
     quantity |-> item.quantity, unit_price |-> item.unit_price]

\* The table cart_items is empty and nothing has been called.
StoreInit ==
    /\ db_rows = {}
    /\ db_seq = 0
    /\ st_call = NoCall
    /\ st_outcome = None
    /\ st_ret = Nil
    /\ st_ncalls = 0

\* find(user_id=user_id): the rows the query matches
Find(rows, user_id) == {r \in rows : r.user_id = user_id}

\* The orders in which .all() can return the rows (the query has no ORDER BY).
Orderings(rows) ==
    {f \in [1..Cardinality(rows) -> rows] :
        \A i, j \in 1..Cardinality(rows) : f[i] = f[j] => i = j}

\* CartItem(product_id=row.product_id, quantity=row.quantity,
\*          unit_price=row.unit_price)
ItemOfRow(row) == CartItem(row.product_id, row.quantity, row.unit_price)

\* CartRepositoryImpl.get_by_user_id, the rows having come back in order
\* `found`
Repo_get_by_user_id(user_id, found) ==
    IF found = <<>> THEN Nil
    ELSE Cart(user_id, [i \in DOMAIN found |-> ItemOfRow(found[i])])

\* Mutant: the delete has no filter.
DeleteBy_Unfiltered(rows, user_id) == {}

\* delete_by(user_id=...): the table after the delete and the commit
DeleteBy(rows, user_id) == rows \ Find(rows, user_id)

\* Mutant: save does not delete the rows the user has.
Repo_save_KeepOld(rows, seq, cart) ==
    [rows |-> rows \cup {CartItemModel(seq + i, cart.user_id, cart.items[i]) :
                            i \in DOMAIN cart.items},
     seq |-> seq + Len(cart.items)]

\* CartRepositoryImpl.save: the table and the id sequence afterwards
Repo_save(rows, seq, cart) ==
    [rows |-> DeleteBy(rows, cart.user_id)
                 \cup {CartItemModel(seq + i, cart.user_id, cart.items[i]) :
                          i \in DOMAIN cart.items},
     seq |-> seq + Len(cart.items)]

\* Mutant: get_cart returns what the repository returned.
Svc_get_cart_NoDefault(user_id, found) == Repo_get_by_user_id(user_id, found)

\* CartService.get_cart: `cart or Cart(user_id=user_id)`; a Cart is true
\* whatever its items (it defines neither __bool__ nor __len__)
Svc_get_cart(user_id, found) ==
    IF Repo_get_by_user_id(user_id, found) # Nil
    THEN Repo_get_by_user_id(user_id, found)
    ELSE Cart(user_id, <<>>)

\* CartService.add_item: the exception raised, the cart returned, the table
\* and the id sequence afterwards
Svc_add_item(rows, seq, user_id, product_id, unit_price, quantity, found) ==
    IF quantity <= 0
    THEN [raised |-> "ValueError", ret |-> Nil, rows |-> rows, seq |-> seq]
    ELSE LET cart == Svc_get_cart(user_id, found)
             added == Cart_add_item(cart.items, product_id, unit_price, quantity)
             saved == Repo_save(rows, seq, Cart(user_id, added.items))
         IN  IF added.raised # None
             THEN [raised |-> added.raised, ret |-> Nil, rows |-> rows, seq |-> seq]
             ELSE [raised |-> None, ret |-> Cart(user_id, added.items),
                   rows |-> saved.rows, seq |-> saved.seq]

\* cart_out_from_domain
CartOut(cart) ==
    [user_id |-> cart.user_id, items |-> cart.items,
     total |-> Cart_total_amount(cart.items)]

\* `not cart` for what get_cart returned
Not(cart) == cart = Nil

\* The GET /cart handler: the HTTP status and the data of the response
Api_get_cart(user_id, found) ==
    IF Not(Svc_get_cart(user_id, found))
    THEN [status |-> 404, data |-> Nil]
    ELSE [status |-> 200, data |-> CartOut(Svc_get_cart(user_id, found))]

\* The state after a call that ended with outcome and ret.
StoreStep(call, outcome, ret, rows, seq) ==
    /\ st_ncalls < MaxStoreCalls
    /\ st_call' = call
    /\ st_outcome' = outcome
    /\ st_ret' = ret
    /\ db_rows' = rows
    /\ db_seq' = seq
    /\ st_ncalls' = st_ncalls + 1
    /\ UNCHANGED <<domainVars, regVars, resVars, discVars, sessVars>>

StoreSave ==
    \E cart \in SavedCarts :
        \E r \in {Repo_save(db_rows, db_seq, cart)} :
            StoreStep([op |-> "save", cart |-> cart], "ok", Nil, r.rows, r.seq)

StoreGetByUserId ==
    \E user_id \in Users :
        \E found \in Orderings(Find(db_rows, user_id)) :
            StoreStep([op |-> "get_by_user_id", user_id |-> user_id], "ok",
                      Repo_get_by_user_id(user_id, found), db_rows, db_seq)

ServiceGetCart ==
    \E user_id \in Users :
        \E found \in Orderings(Find(db_rows, user_id)) :
            StoreStep([op |-> "get_cart", user_id |-> user_id], "ok",
                      Svc_get_cart(user_id, found), db_rows, db_seq)

ServiceAddItem ==
    \E user_id \in Users, product_id \in Products, unit_price \in Prices,
       quantity \in ServiceQuantities :
        \E found \in Orderings(Find(db_rows, user_id)) :
            \E r \in {Svc_add_item(db_rows, db_seq, user_id, product_id, unit_price,
                                    quantity, found)} :
                StoreStep([op |-> "add_item", user_id |-> user_id,
                           product_id |-> product_id, unit_price |-> unit_price,
                           quantity |-> quantity],
                          IF r.raised = None THEN "ok" ELSE r.raised,
                          r.ret, r.rows, r.seq)

ApiGetCart ==
    \E user_id \in Users :
        \E found \in Orderings(Find(db_rows, user_id)) :
            StoreStep([op |-> "GET /cart", user_id |-> user_id], "ok",
                      Api_get_cart(user_id, found), db_rows, db_seq)

(***************************************************************************)
(* The same repository and service used by concurrent requests, each on    *)
(* the session get_session gave it (app/infra/db/session.py).  A request   *)
(* runs one statement at a time; ss_pc is the statement it is about to     *)
(* execute.  A statement sees what has been committed (the database runs   *)
(* the transactions READ COMMITTED), and a delete or an insert is          *)
(* committed by the method that issues it.                                 *)
(***************************************************************************)
\* The arguments of the concurrent requests: the carts passed to save and
\* the unit price passed to add_item.
SessionCarts ==
    {Cart(u, its) : u \in Users,
                    its \in {<<>>,
                             <<CartItem("p1", 2, 100)>>,
                             <<CartItem("p2", 1, 50), CartItem("p1", 2, 100)>>}}
SessionPrices == {50}

SessInit ==
    /\ ss_pc = [s \in Sessions |-> "idle"]
    /\ ss_op = [s \in Sessions |-> NoCall]
    /\ ss_cart = [s \in Sessions |-> Nil]
    /\ ss_old = [s \in Sessions |-> {}]
    /\ ss_new = [s \in Sessions |-> {}]
    /\ ss_outcome = [s \in Sessions |-> None]
    /\ ss_ret = [s \in Sessions |-> Nil]
    /\ ss_ncalls = [s \in Sessions |-> 0]

\* The number of calls the sessions of S have made.
RECURSIVE CallsOf(_)
CallsOf(S) ==
    IF S = {} THEN 0
    ELSE LET s == CHOOSE x \in S : TRUE IN ss_ncalls[s] + CallsOf(S \ {s})

\* The request of session s calls op and goes on at pc holding cart; ret is
\* what the call has returned by then, if it has.
SessCall(s, op, pc, cart, outcome, ret) ==
    /\ ss_pc[s] = "idle"
    /\ CallsOf(Sessions) < MaxSessionCalls
    /\ ss_op' = [ss_op EXCEPT ![s] = op]
    /\ ss_ncalls' = [ss_ncalls EXCEPT ![s] = @ + 1]
    /\ ss_pc' = [ss_pc EXCEPT ![s] = pc]
    /\ ss_cart' = [ss_cart EXCEPT ![s] = cart]
    /\ ss_outcome' = [ss_outcome EXCEPT ![s] = outcome]
    /\ ss_ret' = [ss_ret EXCEPT ![s] = ret]

\* The call of session s ends with outcome and ret.
SessEnd(s, outcome, ret) ==
    /\ ss_pc' = [ss_pc EXCEPT ![s] = "idle"]
    /\ ss_outcome' = [ss_outcome EXCEPT ![s] = outcome]
    /\ ss_ret' = [ss_ret EXCEPT ![s] = ret]

\* What the call of session s returns when its save has returned: add_item
\* returns the cart, save returns None.
SessReturn(s) == IF ss_op[s].op = "add_item" THEN ss_cart[s] ELSE Nil

\* CartService.add_item up to `self.cart_repo.get_by_user_id(user_id) or
\* Cart(user_id=user_id)`: the check of quantity and the query
SessAddItem(s) ==
    /\ \E user_id \in Users, product_id \in Products, unit_price \in SessionPrices,
          quantity \in ServiceQuantities :
          \E found \in Orderings(Find(db_rows, user_id)) :
              /\ SessCall(s, [op |-> "add_item", user_id |-> user_id,
                              product_id |-> product_id, unit_price |-> unit_price,
                              quantity |-> quantity],
                          IF quantity <= 0 THEN "raise" ELSE "merge",
                          IF quantity <= 0 THEN Nil ELSE Svc_get_cart(user_id, found),
                          None, Nil)
    /\ UNCHANGED <<ss_old, ss_new, db_rows, db_seq>>
    /\ UNCHANGED <<st_call, st_outcome, st_ret, st_ncalls>>
    /\ UNCHANGED <<domainVars, regVars, resVars, discVars>>

\* `raise ValueError("quantity must be positive")` of CartService.add_item
SessRaise(s) ==
    /\ ss_pc[s] = "raise"
    /\ SessEnd(s, "ValueError", Nil)
    /\ UNCHANGED <<ss_op, ss_cart, ss_old, ss_new, ss_ncalls, storeVars>>
    /\ UNCHANGED <<domainVars, regVars, resVars, discVars>>

\* `cart.add_item(...)` of CartService.add_item, on the cart in memory
SessMerge(s) ==
    /\ ss_pc[s] = "merge"
    /\ \E added \in {Cart_add_item(ss_cart[s].items, ss_op[s].product_id,
                                   ss_op[s].unit_price, ss_op[s].quantity)} :
          IF added.raised # None
          THEN SessEnd(s, added.raised, Nil) /\ UNCHANGED ss_cart
          ELSE /\ ss_pc' = [ss_pc EXCEPT ![s] = "delete"]
               /\ ss_cart' = [ss_cart EXCEPT ![s] = Cart(ss_op[s].user_id, added.items)]
               /\ UNCHANGED <<ss_outcome, ss_ret>>
    /\ UNCHANGED <<ss_op, ss_old, ss_new, ss_ncalls, storeVars>>
    /\ UNCHANGED <<domainVars, regVars, resVars, discVars>>

\* A request calls CartRepositoryImpl.save(cart) itself.
SessSave(s) ==
    /\ \E cart \in SessionCarts :
          SessCall(s, [op |-> "save", cart |-> cart], "delete", cart, None, Nil)
    /\ UNCHANGED <<ss_old, ss_new, db_rows, db_seq>>
    /\ UNCHANGED <<st_call, st_outcome, st_ret, st_ncalls>>
    /\ UNCHANGED <<domainVars, regVars, resVars, discVars>>

\* `self.delete_by(user_id=cart.user_id)` of save: the delete and its commit;
\* save returns here when the cart has no item.
SessDelete(s) ==
    /\ ss_pc[s] = "delete"
    /\ db_rows' = DeleteBy(db_rows, ss_cart[s].user_id)
    /\ ss_old' = [ss_old EXCEPT ![s] = Find(db_rows, ss_cart[s].user_id)]
    /\ IF ss_cart[s].items = <<>>
       THEN SessEnd(s, "ok", SessReturn(s))
       ELSE /\ ss_pc' = [ss_pc EXCEPT ![s] = "insert"]
            /\ UNCHANGED <<ss_outcome, ss_ret>>
    /\ UNCHANGED <<ss_op, ss_cart, ss_new, ss_ncalls, db_seq>>
    /\ UNCHANGED <<st_call, st_outcome, st_ret, st_ncalls>>
    /\ UNCHANGED <<domainVars, regVars, resVars, discVars>>

\* The CartItemModel rows save builds for cart, with the ids the sequence
\* gives them from seq on
Models(seq, cart) ==
    {CartItemModel(seq + i, cart.user_id, cart.items[i]) : i \in DOMAIN cart.items}

\* `self.save_all(cart_items)` of save up to its commit: the insert
SessInsert(s) ==
    /\ ss_pc[s] = "insert"
    /\ db_rows' = db_rows \cup Models(db_seq, ss_cart[s])
    /\ db_seq' = db_seq + Len(ss_cart[s].items)
    /\ ss_new' = [ss_new EXCEPT ![s] = Models(db_seq, ss_cart[s])]
    /\ ss_pc' = [ss_pc EXCEPT ![s] = "refresh"]
    /\ UNCHANGED <<ss_op, ss_cart, ss_old, ss_outcome, ss_ret, ss_ncalls>>
    /\ UNCHANGED <<st_call, st_outcome, st_ret, st_ncalls>>
    /\ UNCHANGED <<domainVars, regVars, resVars, discVars>>

\* `self.session.refresh(model)` for each model of save_all: it raises when
\* the row of a model is no longer there.
SessRefresh(s) ==
    /\ ss_pc[s] = "refresh"
    /\ IF ss_new[s] \subseteq db_rows
       THEN SessEnd(s, "ok", SessReturn(s))
       ELSE SessEnd(s, "InvalidRequestError", Nil)
    /\ UNCHANGED <<ss_op, ss_cart, ss_old, ss_new, ss_ncalls, storeVars>>
    /\ UNCHANGED <<domainVars, regVars, resVars, discVars>>

\* A request calls CartRepositoryImpl.get_by_user_id(user_id): one query.
SessGetByUserId(s) ==
    /\ \E user_id \in Users :
          \E found \in Orderings(Find(db_rows, user_id)) :
              SessCall(s, [op |-> "get_by_user_id", user_id |-> user_id], "idle", Nil,
                       "ok", Repo_get_by_user_id(user_id, found))
    /\ UNCHANGED <<ss_old, ss_new, db_rows, db_seq>>
    /\ UNCHANGED <<st_call, st_outcome, st_ret, st_ncalls>>
    /\ UNCHANGED <<domainVars, regVars, resVars, discVars>>

(***************************************************************************)
(* Specifications                                                          *)
(***************************************************************************)
\* The parts of the state a specification does not use.
OrderUnused == OrderInit /\ order_address = None
IoUnused == DiscoveryInit /\ StoreInit /\ SessInit
RegistryUnused == RegistryInit /\ dep = [files |-> AppFiles, broken |-> {}]

InitCart == CartInit /\ OrderUnused /\ RegistryUnused /\ ResolverInit /\ IoUnused
NextCart == CartAddItem
SpecCart == InitCart /\ [][NextCart]_vars

InitOrder == OrderInit /\ CartInit /\ RegistryUnused /\ ResolverInit /\ IoUnused
NextOrder == OrderAddItem \/ OrderConfirm \/ OrderCancel
SpecOrder == InitOrder /\ [][NextOrder]_vars

InitOrderAny ==
    OrderAnyInit /\ CartInit /\ RegistryUnused /\ ResolverInit /\ IoUnused
SpecOrderAny == InitOrderAny /\ [][NextOrder]_vars

\* The registry used by NumThreads threads at once through its lookup methods.
InitRegistry ==
    RegistryInit /\ CartInit /\ OrderUnused /\ ResolverInit /\ IoUnused
NextRegistry == \E t \in Threads : RegThread(t, LookupOps)
SpecRegistry == InitRegistry /\ [][NextRegistry]_vars

\* The registry used by one thread: its calls follow one another.
NextRegistrySeq == RegThread(1, RegistryOps) \/ RegRegister(1)
SpecRegistrySeq == InitRegistry /\ [][NextRegistrySeq]_vars

\* Resolvers and factories over the registry, called one after another.
InitResolver ==
    /\ ResolverInit /\ RegistryInit /\ dep.broken = {} /\ CartInit /\ OrderUnused
    /\ IoUnused
NextResolver ==
    \/ ResNewResolver
    \/ ResResolveService
    \/ ResGetService
    \/ ResGetRepository
    \/ ResRegister
SpecResolver == InitResolver /\ [][NextResolver]_vars

\* The services resolved in deployments where an implementation module is
\* absent: that of FooRepository, or that of CartRepository, which
\* OrderRepositoryImpl requires.
ServiceDeployments ==
    {[files |-> (AppFiles \cup {"bar_service"}) \ missing, broken |-> {}] :
        missing \in {{}, {"foo_repository_impl"}, {"cart_repository_impl"}}}
AllServices == Services \cup {"BarService"}

InitService ==
    /\ ResolverInit /\ RegistryInitIn(ServiceDeployments) /\ CartInit /\ OrderUnused
    /\ IoUnused
NextService ==
    \/ ResNewResolver
    \/ ResResolveServiceOf(AllServices)
    \/ ResGetServiceOf(AllServices)
SpecService == InitService /\ [][NextService]_vars

\* Resolutions over a registry in which implementations registered by hand
\* depend on each other's contracts in a cycle.
InitCycle ==
    /\ ResolverInit /\ RegistryInit /\ dep = [files |-> AppFiles, broken |-> {}]
    /\ CartInit /\ OrderUnused /\ IoUnused
NextCycle ==
    \/ ResNewResolver
    \/ ResResolveService
    \/ ResGetService
    \/ ResGetRepository
    \/ ResRegisterCyclic
SpecCycle == InitCycle /\ [][NextCycle]_vars

\* The functions of auto_discovery.py called on a deployment.
InitDiscovery ==
    /\ DiscoveryInit /\ RegistryInitIn(DiscoveryDeployments) /\ ResolverInit
    /\ CartInit /\ OrderUnused /\ StoreInit /\ SessInit
NextDiscovery ==
    \/ DiscScanInterfaces
    \/ DiscScanImplementations
    \/ DiscScanServices
    \/ DiscDiscoverRepositories
    \/ DiscDiscoverServices
SpecDiscovery == InitDiscovery /\ [][NextDiscovery]_vars

\* The cart repository, the cart service and the handler, one call at a time.
InitStore ==
    /\ StoreInit /\ DiscoveryInit /\ RegistryUnused /\ ResolverInit
    /\ CartInit /\ OrderUnused /\ SessInit
NextStore ==
    \/ StoreSave
    \/ StoreGetByUserId
    \/ ServiceGetCart
    \/ ServiceAddItem
    \/ ApiGetCart
SpecStore == InitStore /\ [][NextStore]_vars

\* Requests that run concurrently, each on its own session, over one table.
NextSessions ==
    \E s \in Sessions :
        \/ SessAddItem(s)
        \/ SessRaise(s)
        \/ SessMerge(s)
        \/ SessSave(s)
        \/ SessDelete(s)
        \/ SessInsert(s)
        \/ SessRefresh(s)
        \/ SessGetByUserId(s)
SpecSessions == InitStore /\ [][NextSessions]_vars

\* Concurrent requests that call CartService.add_item, and requests that
\* read a cart with get_by_user_id.
NextAddItems ==
    \E s \in Sessions :
        \/ SessAddItem(s)
        \/ SessRaise(s)
        \/ SessMerge(s)
        \/ SessDelete(s)
        \/ SessInsert(s)
        \/ SessRefresh(s)
        \/ SessGetByUserId(s)
SpecAddItems == InitStore /\ [][NextAddItems]_vars

(***************************************************************************)
(* Properties of Cart                                                      *)
(***************************************************************************)
RECURSIVE SumSet(_, _)
\* Sum of F[x] over the finite set S.
SumSet(S, F) ==
    IF S = {} THEN 0
    ELSE LET x == CHOOSE y \in S : TRUE IN F[x] + SumSet(S \ {x}, F)

\* Positions of the calls for product p in a call history.
CallsFor(h, p) == {i \in DOMAIN h : h[i].product_id = p}
\* Sum of the quantities added for p.
QuantityAdded(h, p) == SumSet(CallsFor(h, p), [i \in DOMAIN h |-> h[i].quantity])
\* Unit price of the first call for p.
FirstPrice(h, p) ==
    h[CHOOSE i \in CallsFor(h, p) : \A j \in CallsFor(h, p) : i <= j].unit_price
ProductsIn(h) == {h[i].product_id : i \in DOMAIN h}
ExpectedTotal(h) ==
    SumSet(ProductsIn(h),
           [p \in ProductsIn(h) |-> QuantityAdded(h, p) * FirstPrice(h, p)])

\* C1: after any sequence of add_item calls on an empty cart, total_amount()
\* is the sum over the distinct product ids of (the quantities added for the
\* id) times (the unit price of the first call for the id); it is 0 for the
\* empty cart.
C1_TotalUsesFirstPrice ==
    /\ Cart_total_amount(cart_items) = ExpectedTotal(cart_history)
    /\ cart_items = <<>> => Cart_total_amount(cart_items) = 0

\* A product added twice, the second time at another unit price.
C1_Witness ==
    \E i, j \in DOMAIN cart_history :
        /\ i < j
        /\ cart_history[i].product_id = cart_history[j].product_id
        /\ cart_history[i].unit_price # cart_history[j].unit_price

\* C2: the item list holds at most one entry per product id.
C2_OneEntryPerProduct ==
    \A i, j \in DOMAIN cart_items :
        cart_items[i].product_id = cart_items[j].product_id => i = j

\* The same product added twice (merged into one entry), then a rejected call.
C2_Witness ==
    /\ Len(cart_history) = 2
    /\ cart_history[1].product_id = cart_history[2].product_id
    /\ Len(cart_items) = 1
    /\ cart_items[1].quantity = cart_history[1].quantity + cart_history[2].quantity
    /\ cart_outcome = "ValueError"

\* C3: add_item with quantity <= 0 raises ValueError and leaves the item list
\* as it was, in every cart state and for every product id and unit price.
C3_RejectLeavesCartUnchanged ==
    [][(cart_ncalls' = cart_ncalls + 1 /\ cart_call'.quantity <= 0)
         => (cart_outcome' = "ValueError" /\ cart_items' = cart_items)]_vars

\* A rejected call on a non-empty cart, made twice in a row.
C3_Witness ==
    /\ cart_items # <<>>
    /\ cart_ncalls = Len(cart_history) + 2
    /\ cart_call.quantity <= 0
    /\ cart_outcome = "ValueError"

\* C20: an add_item that returns normally changes only the entry of the given
\* product: a present product keeps its position and unit price and its
\* quantity grows by the amount added; an absent product gets one new entry,
\* with the given unit price and quantity, at the end; every other entry and
\* the order of the entries stay as they were.
C20_AddItemChangesOneEntry ==
    [][(cart_ncalls' = cart_ncalls + 1 /\ cart_outcome' = "ok") =>
         LET c == cart_call'
             present == \E i \in DOMAIN cart_items :
                           cart_items[i].product_id = c.product_id
         IN  /\ present =>
                   /\ Len(cart_items') = Len(cart_items)
                   /\ \A i \in DOMAIN cart_items :
                         cart_items'[i] =
                            IF cart_items[i].product_id = c.product_id
                            THEN CartItem(c.product_id,
                                          cart_items[i].quantity + c.quantity,
                                          cart_items[i].unit_price)
                            ELSE cart_items[i]
             /\ ~present =>
                   cart_items' = Append(cart_items,
                                        CartItem(c.product_id, c.quantity,
                                                 c.unit_price))]_vars

\* Two products in the cart, and the first of them was added to again at
\* another unit price: its entry is still the first and has its first price.
C20_Witness ==
    /\ Len(cart_items) = 2
    /\ Len(cart_history) = 3
    /\ cart_call.product_id = cart_items[1].product_id
    /\ cart_call.unit_price # cart_items[1].unit_price
    /\ cart_outcome = "ok"
    /\ cart_items[1].quantity = cart_history[1].quantity + cart_call.quantity

(***************************************************************************)
(* Properties of Order                                                     *)
(***************************************************************************)
OrderCalled(op) == order_ncalls' = order_ncalls + 1 /\ order_call'.op = op

\* C4: confirm() succeeds exactly when status is PENDING, items is non-empty
\* and a shipping address is set; on success status becomes CONFIRMED, and
\* otherwise it raises ValueError.
C4_ConfirmIffReady ==
    [][OrderCalled("confirm") =>
         /\ (order_outcome' = "ok") <=>
               (order_status = "PENDING" /\ order_items # <<>> /\ order_address # None)
         /\ order_outcome' = "ok" => order_status' = "CONFIRMED"
         /\ order_outcome' # "ok" => order_outcome' = "ValueError"]_vars

\* A confirm() that succeeded.
C4_Witness ==
    /\ order_call.op = "confirm"
    /\ order_outcome = "ok"
    /\ order_status = "CONFIRMED"
    /\ order_items # <<>>
    /\ order_address # None

\* C5: cancel() raises ValueError from DELIVERED and CANCELLED, and from
\* PENDING, CONFIRMED and SHIPPED it succeeds and sets status to CANCELLED,
\* whatever the items and the shipping address.
C5_CancelByStatus ==
    [][OrderCalled("cancel") =>
         /\ order_status \in {"DELIVERED", "CANCELLED"} => order_outcome' = "ValueError"
         /\ order_status \in {"PENDING", "CONFIRMED", "SHIPPED"} =>
               (order_outcome' = "ok" /\ order_status' = "CANCELLED")]_vars

\* A cancel() that succeeded as the first operation on an order with no items
\* and no address.
C5_Witness ==
    /\ order_call.op = "cancel"
    /\ order_ncalls = 1
    /\ order_outcome = "ok"
    /\ order_status = "CANCELLED"
    /\ order_items = <<>>
    /\ order_address = None

DistinctItemIds ==
    \A i, j \in DOMAIN order_items :
        order_items[i].item_id = order_items[j].item_id => i = j

\* C6: add_item raises when quantity <= 0, when status is not PENDING or when
\* the item id is already in the order, and otherwise appends exactly one
\* item; so in every state reached from a fresh order the item ids are
\* pairwise distinct and the item list does not change once status has left
\* PENDING.
C6_AddItemGuards ==
    /\ [][OrderCalled("add_item") =>
            LET c == order_call'
                rejected == \/ c.quantity <= 0
                            \/ order_status # "PENDING"
                            \/ \E i \in DOMAIN order_items :
                                  order_items[i].item_id = c.item_id
            IN  /\ rejected => (order_outcome' = "ValueError"
                                /\ order_items' = order_items)
                /\ ~rejected =>
                      /\ order_outcome' = "ok"
                      /\ order_items' =
                            Append(order_items,
                                   OrderItem(c.item_id, c.product_id, c.quantity,
                                             c.unit_price))]_vars
    /\ []DistinctItemIds
    /\ [][order_status # "PENDING" => order_items' = order_items]_vars

\* An add_item rejected only because its item id is already in the order.
C6_Witness ==
    /\ order_call.op = "add_item"
    /\ order_outcome = "ValueError"
    /\ order_call.quantity > 0
    /\ order_status = "PENDING"
    /\ \E i \in DOMAIN order_items : order_items[i].item_id = order_call.item_id

\* C19: every change of status is PENDING to CONFIRMED by confirm, or
\* PENDING, CONFIRMED or SHIPPED to CANCELLED by cancel; CANCELLED is never
\* left; confirm returns normally at most once per order; and an order
\* constructed PENDING never reaches SHIPPED or DELIVERED.
C19_StatusMachine ==
    /\ [][order_status' # order_status =>
            \/ /\ order_call'.op = "confirm"
               /\ order_status = "PENDING"
               /\ order_status' = "CONFIRMED"
            \/ /\ order_call'.op = "cancel"
               /\ order_status \in {"PENDING", "CONFIRMED", "SHIPPED"}
               /\ order_status' = "CANCELLED"]_vars
    /\ [][order_status = "CANCELLED" => order_status' = "CANCELLED"]_vars
    /\ [](order_confirms <= 1)
    /\ [](order_initial = "PENDING" => order_status \notin {"SHIPPED", "DELIVERED"})

\* An order constructed PENDING was confirmed, a second confirm was refused,
\* and it was then cancelled.
C19_Witness ==
    /\ order_initial = "PENDING"
    /\ order_confirms = 1
    /\ order_ncalls >= 3
    /\ order_call.op = "cancel"
    /\ order_outcome = "ok"
    /\ order_status = "CANCELLED"

\* C23: an add_item, confirm or cancel that raises ValueError leaves the
\* items, the status and the shipping address of the order as they were,
\* whatever the order was constructed with.
C23_FailedOperationChangesNothing ==
    [][(order_ncalls' = order_ncalls + 1 /\ order_outcome' = "ValueError") =>
         /\ order_call'.op \in {"add_item", "confirm", "cancel"}
         /\ order_items' = order_items
         /\ order_status' = order_status
         /\ order_address' = order_address]_vars

\* A cancel refused on a delivered order that has an item and an address.
C23_Witness ==
    /\ order_call.op = "cancel"
    /\ order_outcome = "ValueError"
    /\ order_status = "DELIVERED"
    /\ order_items = <<SomeItem>>
    /\ order_address = Address

(***************************************************************************)
(* Properties of the registry                                              *)
(***************************************************************************)
\* C7: when several threads make the first calls of the lookup methods at
\* once, the discovery scan (discover_repositories and discover_services)
\* runs exactly once in every interleaving.
C7_DiscoveryRunsOnce ==
    /\ reg_scans.repos <= 1
    /\ reg_scans.services <= 1
    /\ reg_initialized => reg_scans = [repos |-> 1, services |-> 1]

\* A thread is about to return from get_repository_implementation.
Returns(t) ==
    /\ th_pc[t] = "lookup"
    /\ th_pc'[t] = "idle"
    /\ th_op[t].op = "get_repository_implementation"

\* C8: once register_repository(c, i) is the last manual registration for c,
\* whether made before or after discovery, every later
\* get_repository_implementation(c) returns i; and a registration does not
\* run discovery.
C8_ManualRegistrationWins ==
    /\ [][\A t \in Threads :
             (Returns(t) /\ reg_manual[th_op[t].interface] # None)
                => th_ret'[t] = reg_manual[th_op[t].interface]]_vars
    /\ [][reg_nreg' # reg_nreg => reg_scans' = reg_scans]_vars

\* C12: in sequential use (initialize, get_repository_implementation,
\* get_all_services, is_registered in any order) discovery runs at most once,
\* on the first of these calls, and once the registry is initialised no call
\* of them changes the contract-to-implementation map or the service list.
C12_InitializeOnce ==
    /\ [](reg_scans.repos <= 1 /\ reg_scans.services <= 1)
    /\ [](th_op[1] = NoCall => reg_scans = [repos |-> 0, services |-> 0])
    /\ []((th_op[1] # NoCall /\ th_pc[1] = "idle") =>
             (reg_initialized /\ reg_scans = [repos |-> 1, services |-> 1]))
    /\ [][reg_initialized =>
            /\ reg_scans' = reg_scans
            /\ reg_services' = reg_services
            /\ reg_nreg' = reg_nreg => reg_map' = reg_map]_vars

\* initialize() is called on a registry that is initialised already and
\* holds a manual registration: it is at its guard, after one scan.
C12_Witness ==
    /\ th_op[1].op = "initialize"
    /\ th_pc[1] = "init_check"
    /\ reg_initialized
    /\ reg_scans = [repos |-> 1, services |-> 1]
    /\ reg_map # DiscoverRepositories(dep)

(***************************************************************************)
(* Properties of the resolver and the factories                            *)
(***************************************************************************)
ResCalled(op) == res_ncalls' = res_ncalls + 1 /\ res_call'.op = op

\* The parameters of cls declared with a repository contract.
ContractParams(cls) ==
    {k \in DOMAIN ClassDef[cls].init : ClassDef[cls].init[k].annotation \in Contracts}

\* The arguments that objects i and j got for parameters of the same contract.
SameContractArgs(i, j) ==
    {<<heap[i].args[ClassDef[heap[i].cls].init[a].name],
       heap[j].args[ClassDef[heap[j].cls].init[b].name]>> :
        <<a, b>> \in {x \in ContractParams(heap[i].cls) \X ContractParams(heap[j].cls) :
                        ClassDef[heap[i].cls].init[x[1]].annotation
                           = ClassDef[heap[j].cls].init[x[2]].annotation}}

\* C9: within one resolver every dependency edge declared with the same
\* repository contract is bound to the same object, across resolutions and
\* through nested construction, and at most one instance is built for a
\* contract.
C9_EdgesShareInstance ==
    /\ \A b1, b2 \in res_bound :
          (b1.resolver = b2.resolver /\ b1.type = b2.type /\ b1.type \in Contracts)
             => b1.obj = b2.obj
    /\ \A x, y \in res_built :
          (x.resolver = y.resolver /\ x.type = y.type) => x.obj = y.obj
    /\ \A i, j \in DOMAIN heap :
          heap[i].resolver = heap[j].resolver =>
             \A pair \in SameContractArgs(i, j) : pair[1] = pair[2]

\* An OrderService whose cart_repo is the object its order_repo was built
\* with: a nested edge and a direct edge of the same contract.
C9_Witness ==
    \E i \in DOMAIN heap :
        /\ heap[i].cls = "OrderService"
        /\ heap[heap[i].args.order_repo.obj].cls = "OrderRepositoryImpl"
        /\ heap[heap[i].args.order_repo.obj].args.cart_repo = heap[i].args.cart_repo

\* The service has a parameter without default declared with a contract that
\* has no entry in map.
RequiresUnmapped(service_type, map) ==
    \E k \in ContractParams(service_type) :
        /\ ClassDef[service_type].init[k].required
        /\ map[ClassDef[service_type].init[k].annotation] = None

\* A contract without discovered implementation has no entry in the registry
\* unless one is registered manually, and get_repository for a contract
\* without entry raises the not-found error and builds nothing.
UnmappedStaysUnmapped ==
    /\ [](reg_initialized =>
            \A discovered \in {DiscoverRepositories(dep)} :
                \A c \in Contracts :
                    (discovered[c] = None /\ reg_manual[c] = None)
                       => reg_map[c] = None)
    /\ [][(ResCalled("get_repository") /\ reg_map'[res_call'.repository_type] = None)
            => (res_outcome' = "NotFound" /\ res_ret' = Nil /\ heap' = heap)]_vars

\* No object of class cls is built in the step.
BuildsNo(cls) == \A i \in DOMAIN heap' : i \in DOMAIN heap \/ heap'[i].cls # cls

\* C10 as amended: a contract for which discovery finds no implementation
\* stays unmapped (unless registered manually); get_repository for it raises
\* the not-found error; get_service for a service that requires it raises
\* TypeError when the service is constructed, and no service object is built.
C10_UnmappedFailsAtConstruction ==
    /\ UnmappedStaysUnmapped
    /\ [][(ResCalled("get_service")
             /\ RequiresUnmapped(res_call'.service_type, reg_map'))
            => (/\ res_outcome' = "TypeError"
                /\ res_ret' = Nil
                /\ BuildsNo(res_call'.service_type))]_vars

\* C10: ... and every later resolution attempt for the contract, by
\* get_repository or by get_service for a service that requires it, fails
\* with the NotFound error.
C10_UnmappedFailsNotFound ==
    /\ UnmappedStaysUnmapped
    /\ [][(ResCalled("get_service")
             /\ RequiresUnmapped(res_call'.service_type, reg_map'))
            => (/\ res_outcome' = "NotFound"
                /\ res_ret' = Nil
                /\ BuildsNo(res_call'.service_type))]_vars

\* get_service(FooService) failed while FooRepository has no entry, after
\* the CartRepositoryImpl for its other parameter was built.
C10_Witness ==
    /\ res_call.op = "get_service"
    /\ res_call.service_type = "FooService"
    /\ reg_map["FooRepository"] = None
    /\ res_outcome = "TypeError"
    /\ heap # <<>>
    /\ heap[Len(heap)].cls = "CartRepositoryImpl"

\* The objects that object i of heap h was constructed with.
ArgObjects(h, i) ==
    {h[i].args[n].obj : n \in {x \in DOMAIN h[i].args : "obj" \in DOMAIN h[i].args[x]}}
\* The sessions that object i of heap h was constructed with.
ArgSessions(h, i) ==
    {h[i].args[n].session :
        n \in {x \in DOMAIN h[i].args : "session" \in DOMAIN h[i].args[x]}}

\* C14: every get_service call makes a new resolver and builds each instance
\* it hands out itself: the service and the repositories under it are objects
\* that did not exist before the call, and each repository holds the session
\* passed to that call; so no object ever refers to an object of another
\* resolver, and no repository holds a session other than its resolver's.
C14_NoSharingAcrossRequests ==
    /\ [][ResCalled("get_service") =>
            /\ Len(resolvers') = Len(resolvers) + 1
            /\ resolvers'[Len(resolvers')].session = res_call'.session
            /\ res_outcome' = "ok" => res_ret'.obj \notin DOMAIN heap
            /\ \A i \in DOMAIN heap' \ DOMAIN heap :
                  /\ heap'[i].resolver = Len(resolvers')
                  /\ ArgObjects(heap', i) \cap DOMAIN heap = {}
                  /\ ArgSessions(heap', i) \subseteq {res_call'.session}]_vars
    /\ [](\A i \in DOMAIN heap :
             /\ \A j \in ArgObjects(heap, i) : heap[j].resolver = heap[i].resolver
             /\ ArgSessions(heap, i) \subseteq {resolvers[heap[i].resolver].session})

\* Two get_service(CartService, ..) calls with different sessions returned
\* services: their repositories are two objects, each with its own session.
C14_Witness ==
    \E i, j \in DOMAIN heap :
        /\ i < j
        /\ heap[i].cls = "CartService"
        /\ heap[j].cls = "CartService"
        /\ heap[i].args.cart_repo # heap[j].args.cart_repo
        /\ heap[heap[i].args.cart_repo.obj].args.session
              # heap[heap[j].args.cart_repo.obj].args.session
        /\ resolvers[heap[i].resolver].by = "get_service"
        /\ resolvers[heap[j].resolver].by = "get_service"

\* The parameter of cls at position k.
ParamOf(cls, k) == ClassDef[cls].init[k]

\* An instance of impl can be constructed under map: every contract its
\* constructor names is either mapped to an implementation that can be
\* constructed, or unmapped and not required.
RECURSIVE CanBuild(_, _, _)
CanBuild(impl, map, n) ==
    /\ n > 0
    /\ \A k \in ContractParams(impl) :
          IF map[ParamOf(impl, k).annotation] = None
          THEN ~ParamOf(impl, k).required
          ELSE CanBuild(map[ParamOf(impl, k).annotation], map, n - 1)

\* The contract parameters of a service that have an entry in map, and
\* whether their implementations can all be constructed.
MappedParams(cls, map) ==
    {k \in ContractParams(cls) : map[ParamOf(cls, k).annotation] # None}
DependenciesBuild(cls, map) ==
    \A k \in MappedParams(cls, map) :
        CanBuild(map[ParamOf(cls, k).annotation], map, MaxDepth)

\* A parameter without default that resolve_service_dependencies leaves out:
\* declared with an unmapped contract, or without a type.
LeavesOutRequired(cls, map) ==
    \E k \in DOMAIN ClassDef[cls].init :
        /\ ParamOf(cls, k).required
        /\ \/ ParamOf(cls, k).annotation = Empty
           \/ k \in ContractParams(cls) \ MappedParams(cls, map)

C24_ResolutionTerminates ==
    [][(res_ncalls' = res_ncalls + 1
         /\ res_call'.op \in {"resolve_service_dependencies", "get_service",
                              "get_repository"})
          => res_outcome' # "RecursionError"]_vars

(***************************************************************************)
(* Properties of auto-discovery                                            *)
(***************************************************************************)
\* The modules of a package that are there and import.
LoadedModules(d, package) == {m \in ScannedFiles(d, package) : m \notin d.broken}

\* The types a scan of a package is looking for.
IsInterface(c) ==
    /\ EndsWith(ClassDef[c].name, <<"Repository">>)
    /\ ClassDef[c].name # <<"Repository">>
    /\ ClassDef[c].abstract
IsImplementation(c) ==
    EndsWith(ClassDef[c].name, <<"Repository", "Impl">>) /\ ~ClassDef[c].abstract
IsService(c) ==
    /\ EndsWith(ClassDef[c].name, <<"Service">>)
    /\ ClassDef[c].name # <<"Service">>
    /\ ~ClassDef[c].abstract

\* Every type of the loaded modules of the package that is looked for is in
\* the result.
HasAllOf(result, d, package, Wanted(_)) ==
    \A m \in LoadedModules(d, package) :
        \A c \in ModuleDef[m].classes : Wanted(c) => c \in result

\* C15: whichever modules of a scanned package raise on import, a scan
\* returns without raising, and its result holds every type it looks for
\* from every module that imported.
C15_ScanSkipsFailedModules ==
    disc_call # NoCall =>
        /\ disc_outcome = "ok"
        /\ disc_call.op = "_scan_repository_interfaces" =>
              HasAllOf(disc_ret, dep, CoreRepositories, IsInterface)
        /\ disc_call.op = "_scan_repository_implementations" =>
              HasAllOf(disc_ret, dep, InfraRepositories, IsImplementation)
        /\ disc_call.op \in {"_scan_service_classes", "discover_services"} =>
              HasAllOf(disc_ret, dep, CoreServices, IsService)

\* _scan_repository_implementations returned CartRepositoryImpl although two
\* other modules of the package raised on import.
C15_Witness ==
    /\ disc_call.op = "_scan_repository_implementations"
    /\ disc_outcome = "ok"
    /\ {"order_repository_impl", "foo_repository_impl"} \subseteq dep.broken
    /\ "cart_repository_impl" \notin dep.broken
    /\ "CartRepositoryImpl" \in disc_ret
    /\ "OrderRepositoryImpl" \notin disc_ret

\* The name with its last word "Repository" replaced by "RepositoryImpl".
SuffixReplaced(name) == SubSeq(name, 1, Len(name) - 1) \o <<"Repository", "Impl">>

\* The concrete types of that name in the implementation namespace.
ConcreteNamed(d, name) ==
    {i \in MembersOf(d, InfraRepositories) :
        ~ClassDef[i].abstract /\ ClassDef[i].name = name}

\* C16: discover_repositories maps a contract found exactly when a concrete
\* type exists in the implementation namespace whose name is the contract's
\* with only the trailing "Repository" replaced by "RepositoryImpl", and maps
\* it to that type.
C16_OnlySuffixReplaced ==
    (disc_call.op = "discover_repositories" /\ disc_outcome = "ok") =>
        \A c \in ScanRepositoryInterfaces(dep) :
            /\ c \in DOMAIN disc_ret
                  <=> ConcreteNamed(dep, SuffixReplaced(ClassDef[c].name)) # {}
            /\ c \in DOMAIN disc_ret
                  => disc_ret[c] \in ConcreteNamed(dep, SuffixReplaced(ClassDef[c].name))

(***************************************************************************)
(* Properties of cart persistence                                          *)
(***************************************************************************)
StoreCalled(op) == st_ncalls' = st_ncalls + 1 /\ st_call'.op = op

\* The (product id, quantity, unit price) triples of an item list.
Triples(its) ==
    {<<its[i].product_id, its[i].quantity, its[i].unit_price>> : i \in DOMAIN its}

DistinctProducts(its) ==
    \A i, j \in DOMAIN its : its[i].product_id = its[j].product_id => i = j

\* C11: save(cart), for a cart with at least one item and pairwise distinct
\* product ids, followed at once by get_by_user_id(cart.user_id) returns a
\* cart of that user with the same set of (product id, quantity, unit price)
\* triples, as many items and the same total_amount, whatever rows the user
\* had before the save.
C11_SaveLoadRoundTrip ==
    [][(/\ st_call.op = "save"
        /\ st_call.cart.items # <<>>
        /\ DistinctProducts(st_call.cart.items)
        /\ StoreCalled("get_by_user_id")
        /\ st_call'.user_id = st_call.cart.user_id)
         => /\ st_ret' # Nil
            /\ st_ret'.user_id = st_call.cart.user_id
            /\ Triples(st_ret'.items) = Triples(st_call.cart.items)
            /\ Len(st_ret'.items) = Len(st_call.cart.items)
            /\ Cart_total_amount(st_ret'.items)
                  = Cart_total_amount(st_call.cart.items)]_vars

\* get_by_user_id returned the two items of the cart saved last in the other
\* order, with total 250; the save had replaced rows stored before it.
C11_Witness ==
    /\ st_call.op = "get_by_user_id"
    /\ st_ret # Nil
    /\ st_ret.items = <<CartItem("p2", 1, 50), CartItem("p1", 2, 100)>>
    /\ Cart_total_amount(st_ret.items) = 250
    /\ \E r1, r2 \in Find(db_rows, st_call.user_id) :
          /\ r1.product_id = "p1"
          /\ r2.product_id = "p2"
          /\ r1.id < r2.id
          /\ r1.id > 1
    /\ Cardinality(db_rows) = 2

\* C17: for a user with no stored row, get_cart returns a Cart with the
\* user's id and no items, without raising, and add_item (with a positive
\* quantity) returns a cart that holds exactly the item added, which is what
\* it stores.
C17_CartCreatedOnFirstAccess ==
    /\ [][(StoreCalled("get_cart") /\ Find(db_rows, st_call'.user_id) = {})
            => (st_outcome' = "ok" /\ st_ret' = Cart(st_call'.user_id, <<>>))]_vars
    /\ [][(/\ StoreCalled("add_item")
            /\ st_call'.quantity > 0
            /\ Find(db_rows, st_call'.user_id) = {})
            => /\ st_outcome' = "ok"
               /\ st_ret' = Cart(st_call'.user_id,
                                 <<CartItem(st_call'.product_id, st_call'.quantity,
                                            st_call'.unit_price)>>)
               /\ {ItemOfRow(r) : r \in Find(db_rows', st_call'.user_id)}
                     = {st_ret'.items[1]}]_vars

\* get_cart returned the empty cart of a user without rows while another
\* user has rows.
C17_Witness ==
    /\ st_call.op = "get_cart"
    /\ st_outcome = "ok"
    /\ st_ret = Cart(st_call.user_id, <<>>)
    /\ Find(db_rows, st_call.user_id) = {}
    /\ db_rows # {}

\* C18: the GET /cart handler answers 404 when no row is stored for the
\* user id.
C18_GetCartNotFound ==
    [][(StoreCalled("GET /cart") /\ Find(db_rows, st_call'.user_id) = {})
         => st_ret'.status = 404]_vars

\* C25: save(cart) leaves the rows of every other user as they were, and
\* afterwards the rows of cart.user_id correspond one-to-one to cart.items:
\* as many rows as items, the i-th item being the product, quantity and unit
\* price of its own row (no row when the cart has no item).
C25_SaveTouchesOnlyItsUser ==
    [][StoreCalled("save") =>
         /\ \A u \in Users \ {st_call'.cart.user_id} :
                Find(db_rows', u) = Find(db_rows, u)
         /\ \A r \in db_rows' : r.user_id \in Users
         /\ Cardinality(Find(db_rows', st_call'.cart.user_id))
               = Len(st_call'.cart.items)
         /\ \E f \in Orderings(Find(db_rows', st_call'.cart.user_id)) :
                [i \in DOMAIN f |-> ItemOfRow(f[i])] = st_call'.cart.items
         /\ st_call'.cart.items = <<>> =>
                Find(db_rows', st_call'.cart.user_id) = {}]_vars

\* A cart of two items was saved for u1, who had a row before, while u2 has
\* rows.
C25_Witness ==
    /\ st_call.op = "save"
    /\ st_ncalls = 3
    /\ st_call.cart.user_id = "u1"
    /\ Len(st_call.cart.items) = 2
    /\ Cardinality(Find(db_rows, "u1")) = 2
    /\ Find(db_rows, "u2") # {}
    /\ db_seq > Cardinality(db_rows)

(***************************************************************************)
(* Properties of cart persistence under concurrent requests                *)
(***************************************************************************)
\* C21: whatever the interleaving of the steps of concurrent add_item
\* requests, the table never holds two rows with the same user id and product
\* id, and a cart get_by_user_id returns has one entry per product.
C21_NoDuplicateRows ==
    /\ \A r1, r2 \in db_rows :
          (r1.user_id = r2.user_id /\ r1.product_id = r2.product_id) => r1 = r2
    /\ \A s \in Sessions :
          (ss_op[s].op = "get_by_user_id" /\ ss_ret[s] # Nil)
             => DistinctProducts(ss_ret[s].items)

\* The rows of a user as (product id, quantity, unit price) triples.
RowTriples(rows) == {<<r.product_id, r.quantity, r.unit_price>> : r \in rows}

\* Session t is inside save(cart) for a cart of user u that has items.
Saving(t, u) ==
    /\ ss_pc[t] \in {"delete", "insert", "refresh"}
    /\ ss_cart[t].user_id = u
    /\ ss_cart[t].items # <<>>

\* The rows user u had when the save of session t began.
OldRows(t, u) == IF ss_pc[t] = "delete" THEN Find(db_rows, u) ELSE ss_old[t]

\* C22: a get_by_user_id(u) that runs on one session while another session is
\* inside save(cart) for a cart of u with items, u having had rows when the
\* save began, returns a cart whose items are all the old ones or all the new
\* ones, and never None.
C22_SaveAtomicToReaders ==
    [][\A r \in Sessions : \A t \in Sessions \ {r} :
          (/\ ss_ncalls'[r] = ss_ncalls[r] + 1
           /\ ss_op'[r].op = "get_by_user_id"
           /\ Saving(t, ss_op'[r].user_id)
           /\ OldRows(t, ss_op'[r].user_id) # {})
            => /\ ss_ret'[r] # Nil
               /\ \/ /\ Triples(ss_ret'[r].items)
                           = RowTriples(OldRows(t, ss_op'[r].user_id))
                      /\ Len(ss_ret'[r].items)
                           = Cardinality(OldRows(t, ss_op'[r].user_id))
                  \/ /\ Triples(ss_ret'[r].items) = Triples(ss_cart[t].items)
                      /\ Len(ss_ret'[r].items) = Len(ss_cart[t].items)]_vars

====
